---- MODULE Spec2Model ----
(***************************************************************************)
(* A model of the DLRover master coordination core:                        *)
(*   - TaskManager (master/shard/task_manager.py) over its DatasetManagers *)
(*   - JobResourceOptimizer (master/resource/job.py)                       *)
(* Handlers that run under TaskManager._lock are one atomic action each.   *)
(* The timeout sweeper takes no lock, so it is modelled in the steps other *)
(* handlers can interleave with: the copy of `doing`, then one step per    *)
(* copied doing-task.                                                      *)
(***************************************************************************)
EXTENDS Integers, Sequences, FiniteSets, TLC

\* ------------------------------------------------------------- bounds
MaxTime == 2
DatasetSize == 3
ShardSize == 2
BatchSize == 1
MaxCallbacks == 2

MaxCount == 2
MaxCpu == 2
MaxMem == 3
MaxSamples == 2
MaxRestores == 1

\* ---------------------------------------------------- program constants
\* TaskManager.__init__(task_process_timeout, ...)
TaskProcessTimeout == 1
\* DatasetSplitter num_epochs of every dataset the model registers
NumEpochs == 1
\* NodeResourceLimit, memory scaled to small units
MIN_VALID_CPU == 1
MIN_VALID_MEMORY == 2
MAX_MEMORY == 3
MAX_PS_NUM == 1
INCREMENTAL_MEMORY_FACTOR_NUM == 3
INCREMENTAL_MEMORY_FACTOR_DEN == 2

Min(a, b) == IF a < b THEN a ELSE b
Max(a, b) == IF a > b THEN a ELSE b
CeilDiv(a, b) == (a + b - 1) \div b

\* ------------------------------------------------------------- inputs
DatasetNames == {"train", "eval"}
\* new_dataset requests: <<dataset_name, task_type, dataset_size>>
NewDatasetRequests ==
    {<<"train", "TRAINING", DatasetSize>>, <<"eval", "EVALUATION", DatasetSize>>,
     <<"train", "TRAINING", -1>>}
TaskIds == 0..(NumEpochs * CeilDiv(DatasetSize, ShardSize) - 1)
Workers == {<<"worker", 0>>, <<"worker", 1>>}
Nodes == Workers \cup {<<"evaluator", 0>>}
NodeIds == {n[2] : n \in Nodes}

VARIABLES
    datasets,   \* TaskManager._datasets: the registered names, in order
    dm,         \* name -> DatasetManager state
    wst,        \* TaskManager._worker_start_task_time (-1: no entry)
    callbacks,  \* TaskManager._task_timeout_callbacks
    now,        \* time.time()
    swPos,      \* sweeper: index in datasets of the dataset being swept, 0 asleep
    swSnap,     \* sweeper: what is left of doing_tasks, the copy of dataset.doing
    swCur,      \* sweeper: cur, read when the copy was taken
    last        \* the last handler that ran: its arguments and what it returned

tmVars == <<datasets, dm, wst, callbacks, now, swPos, swSnap, swCur, last>>

\* ------------------------------------------------- tasks and the splitter
NoTask == [task_id |-> -1, task_type |-> "NONE", shard |-> <<0, 0>>]
NoDoing == [task |-> NoTask, node_type |-> "none", node_id |-> -1, start_time |-> -1]

\* DatasetSplitter.create_shards: the shards of one epoch, in order
CreateShards(size) ==
    [i \in 1..CeilDiv(size, ShardSize) |->
        <<(i - 1) * ShardSize, Min(i * ShardSize, size)>>]

\* DatasetSplitter.epoch_finished
EpochFinished(d) == d.epoch >= NumEpochs

\* BatchDatasetManager(task_type, batch_size, dataset_splitter)
NewDatasetManager(task_type, size) ==
    [task_type |-> task_type, size |-> size, todo |-> <<>>, doing |-> <<>>,
     done |-> {}, task_id |-> 0, epoch |-> 0, completed_step |-> 0]

Unregistered == NewDatasetManager("NONE", 0)

\* BatchDatasetManager._create_todo_tasks: dense ids from the task_id counter
CreateTodoTasks(d) ==
    LET shards == CreateShards(d.size)
        tasks == [i \in 1..Len(shards) |->
                    [task_id |-> d.task_id + i - 1, task_type |-> d.task_type,
                     shard |-> shards[i]]]
    IN [d EXCEPT !.todo = @ \o tasks, !.task_id = @ + Len(shards),
                 !.epoch = @ + 1]

\* DatasetManager.get_task: the head of todo moves to doing
DMGetTask(d, node_type, node_id, t) ==
    LET d1 == IF d.todo = <<>> /\ ~EpochFinished(d) THEN CreateTodoTasks(d) ELSE d
    IN IF d1.todo = <<>>
       THEN [dm |-> d1, task |-> NoTask]
       ELSE [dm |-> [d1 EXCEPT !.todo = Tail(@),
                               !.doing = Append(@, [task |-> Head(d1.todo),
                                                    node_type |-> node_type,
                                                    node_id |-> node_id,
                                                    start_time |-> t])],
             task |-> Head(d1.todo)]

InDoing(doing, id) == \E i \in 1..Len(doing) : doing[i].task.task_id = id
DoingIndex(doing, id) == CHOOSE i \in 1..Len(doing) : doing[i].task.task_id = id
RemoveAt(s, i) == SubSeq(s, 1, i - 1) \o SubSeq(s, i + 1, Len(s))

\* DatasetManager.recover_task: a failed task goes back to the head of todo
DMRecoverTask(todo, task) == <<task>> \o todo

\* DatasetManager._update_completed_step
BatchCount(task) == CeilDiv(task.shard[2] - task.shard[1], BatchSize)

\* DatasetManager.report_task_status -> (success, doing_task)
DMReportTaskStatus(d, id, success) ==
    IF ~InDoing(d.doing, id)
    THEN [dm |-> d, success |-> FALSE, doing_task |-> NoDoing]
    ELSE LET i == DoingIndex(d.doing, id)
             dt == d.doing[i]
             rest == RemoveAt(d.doing, i)
         IN IF ~success
            THEN [dm |-> [d EXCEPT !.doing = rest,
                                   !.todo = DMRecoverTask(@, dt.task)],
                  success |-> FALSE, doing_task |-> dt]
            ELSE [dm |-> [d EXCEPT !.doing = rest,
                                   !.done = @ \cup {id},
                                   !.completed_step =
                                       IF dt.task.task_type = "TRAINING"
                                       THEN @ + BatchCount(dt.task) ELSE @],
                  success |-> TRUE, doing_task |-> dt]

\* ------------------------------------------------------------ TaskManager
Registered(name) == \E i \in 1..Len(datasets) : datasets[i] = name

\* `last` keeps the latest step that had an effect (a write, a returned task, a
\* timeout); a call that changed nothing and returned nothing leaves it alone.
\* success: the success argument of a report. ok: a task was returned (get,
\* report) or the doing-task was found timed out (sweep). writes: the step changed _datasets,
\* _worker_start_task_time or a dataset's queues. locked: the step ran its writes
\* inside `with self._lock`. calls: the timeout callbacks the step invoked.
NoOp == [op |-> "init", ds |-> "none", node_type |-> "none", node_id |-> -1,
         task |-> NoTask, success |-> FALSE, ok |-> FALSE, calls |-> <<>>,
         writes |-> FALSE, locked |-> FALSE]

TMInit ==
    /\ datasets = <<>>
    /\ dm = [n \in DatasetNames |-> Unregistered]
    /\ wst = [i \in NodeIds |-> -1]
    /\ callbacks = <<>>
    /\ now = 0
    /\ swPos = 0
    /\ swSnap = <<>>
    /\ swCur = 0
    /\ last = NoOp

\* a faulty variant of NewDataset: a registered name is registered again
NewDatasetAgain(name, size, task_type) ==
    /\ IF size < 0
       THEN UNCHANGED <<datasets, dm, last>>
       ELSE /\ datasets' = IF Registered(name) THEN datasets
                           ELSE Append(datasets, name)
            /\ dm' = [dm EXCEPT ![name] = NewDatasetManager(task_type, size)]
            /\ last' = [NoOp EXCEPT !.op = "new_dataset", !.ds = name,
                                    !.writes = TRUE, !.locked = TRUE]
    /\ UNCHANGED <<wst, callbacks, now, swPos, swSnap, swCur>>

\* TaskManager.new_dataset
NewDataset(name, size, task_type) ==
    /\ IF Registered(name) \/ size < 0
       THEN UNCHANGED <<datasets, dm, last>>
       ELSE /\ datasets' = Append(datasets, name)
            /\ dm' = [dm EXCEPT ![name] = NewDatasetManager(task_type, size)]
            /\ last' = [NoOp EXCEPT !.op = "new_dataset", !.ds = name,
                                    !.writes = TRUE, !.locked = TRUE]
    /\ UNCHANGED <<wst, callbacks, now, swPos, swSnap, swCur>>

\* TaskManager.get_dataset_task
GetDatasetTask(node_type, node_id, name) ==
    /\ IF Registered(name)
       THEN LET r == DMGetTask(dm[name], node_type, node_id, now)
            IN /\ dm' = [dm EXCEPT ![name] = r.dm]
               /\ wst' = [wst EXCEPT ![node_id] = now]
               /\ last' = [NoOp EXCEPT !.op = "get", !.ds = name,
                                       !.node_type = node_type,
                                       !.node_id = node_id, !.task = r.task,
                                       !.ok = (r.task # NoTask),
                                       !.writes = TRUE, !.locked = TRUE]
       ELSE UNCHANGED <<dm, wst, last>>
    /\ UNCHANGED <<datasets, callbacks, now, swPos, swSnap, swCur>>

\* a faulty variant of ReportStatus: the success flag of the request is dropped
ReportStatusAlwaysSuccess(d, task_id, success) == DMReportTaskStatus(d, task_id, TRUE)

\* a faulty variant of ReportStatus: a failed report of a task that is done
\* puts the task back at the head of todo
ReportStatusRequeuesDone(d, task_id, success) ==
    IF task_id \in d.done /\ ~success
    THEN [dm |-> [d EXCEPT !.done = @ \ {task_id},
                           !.todo = <<[task_id |-> task_id,
                                       task_type |-> d.task_type,
                                       shard |-> <<0, 0>>]>> \o @],
          success |-> FALSE, doing_task |-> NoDoing]
    ELSE DMReportTaskStatus(d, task_id, success)

\* report_dataset_task's call dataset.report_task_status(task_id, success)
ReportStatus(d, task_id, success) == DMReportTaskStatus(d, task_id, success)

\* TaskManager.report_dataset_task -> (task, node_id) or (None, None)
ReportDatasetTask(name, task_id, success) ==
    /\ IF ~Registered(name)
       THEN UNCHANGED <<dm, wst, last>>
       ELSE LET r == ReportStatus(dm[name], task_id, success)
            IN /\ dm' = [dm EXCEPT ![name] = r.dm]
               /\ wst' = IF r.success
                         THEN [wst EXCEPT ![r.doing_task.node_id] = now]
                         ELSE wst
               /\ last' = IF r.doing_task = NoDoing THEN last
                          ELSE [NoOp EXCEPT !.op = "report", !.ds = name,
                                            !.task = r.doing_task.task,
                                            !.node_type = r.doing_task.node_type,
                                            !.node_id = r.doing_task.node_id,
                                            !.success = success,
                                            !.ok = r.success,
                                            !.writes = TRUE, !.locked = TRUE]
    /\ UNCHANGED <<datasets, callbacks, now, swPos, swSnap, swCur>>

\* a faulty variant of RecoverIds: the node type is not compared
RecoverIdsAnyType(doing, node_type, node_id) ==
    LET hit == SelectSeq(doing, LAMBDA x : x.node_id = node_id)
    IN [i \in 1..Len(hit) |-> hit[i].task.task_id]

\* the ids recover_tasks collects for one dataset, in the order of doing
RecoverIds(doing, node_type, node_id) ==
    LET hit == SelectSeq(doing, LAMBDA x : x.node_id = node_id /\ x.node_type = node_type)
    IN [i \in 1..Len(hit) |-> hit[i].task.task_id]

\* the report_dataset_task(request, False) calls recover_tasks makes for one dataset
RECURSIVE ReportAllFailed(_, _)
ReportAllFailed(d, ids) ==
    IF ids = <<>> THEN d
    ELSE ReportAllFailed(ReportStatus(d, Head(ids), FALSE).dm, Tail(ids))

\* TaskManager.recover_tasks
RecoverTasks(node_type, node_id) ==
    /\ dm' = [n \in DatasetNames |->
                IF Registered(n)
                THEN ReportAllFailed(dm[n], RecoverIds(dm[n].doing, node_type, node_id))
                ELSE dm[n]]
    /\ last' = IF dm' = dm THEN last
               ELSE [NoOp EXCEPT !.op = "recover", !.node_type = node_type,
                                 !.node_id = node_id,
                                 !.writes = TRUE, !.locked = TRUE]
    /\ UNCHANGED <<datasets, wst, callbacks, now, swPos, swSnap, swCur>>

\* TaskManager.reset_worker_start_task_time: writes the map, takes no TaskManager lock
ResetWorkerStartTaskTime(worker_id) ==
    /\ wst' = [wst EXCEPT ![worker_id] = now]
    /\ last' = [NoOp EXCEPT !.op = "reset", !.node_id = worker_id,
                            !.writes = TRUE, !.locked = FALSE]
    /\ UNCHANGED <<datasets, dm, callbacks, now, swPos, swSnap, swCur>>

\* TaskManager.set_task_timeout_callback
SetTaskTimeoutCallback ==
    /\ Len(callbacks) < MaxCallbacks
    /\ callbacks' = Append(callbacks, Len(callbacks) + 1)
    /\ UNCHANGED <<datasets, dm, wst, now, swPos, swSnap, swCur, last>>

\* time.time() advances; one dataset's loop of the sweeper takes no time
Tick ==
    /\ now < MaxTime
    /\ swSnap = <<>>
    /\ now' = now + 1
    /\ UNCHANGED <<datasets, dm, wst, callbacks, swPos, swSnap, swCur, last>>

\* a faulty variant of InvokeTaskTimeoutCallback: only the first callback is called
InvokeFirstCallbackOnly(worker_id) ==
    [i \in 1..Min(1, Len(callbacks)) |-> <<callbacks[i], worker_id>>]

\* TaskManager._invoke_task_timeout_callback: the calls made, in order
InvokeTaskTimeoutCallback(worker_id) ==
    [i \in 1..Len(callbacks) |-> <<callbacks[i], worker_id>>]

\* a faulty variant of SweepTimedOut: the timeout is reached at equality
SweepTimedOutAtEqual(e, start, cur) ==
    e.task.task_type = "EVALUATION" /\ cur - start >= TaskProcessTimeout

\* the sweeper's timeout test for one copied doing-task
SweepTimedOut(e, start, cur) ==
    e.task.task_type = "EVALUATION" /\ cur - start > TaskProcessTimeout

\* self._worker_start_task_time.get(doing_task.node_id, cur)
SweepStart(e, cur) == IF wst[e.node_id] = -1 THEN cur ELSE wst[e.node_id]

\* a faulty variant of SweepReport: the task is put back in todo and stays in doing
SweepReportKeepDoing(d, task_id) ==
    LET r == DMReportTaskStatus(d, task_id, FALSE)
    IN IF r.doing_task = NoDoing THEN r
       ELSE [r EXCEPT !.dm = [d EXCEPT !.todo = DMRecoverTask(@, r.doing_task.task)]]

\* the sweeper's call dataset.report_task_status(task_id, success=False)
SweepReport(d, task_id) == DMReportTaskStatus(d, task_id, FALSE)

\* what the sweeper reads of a doing-task of its copy
SweepEntry(x) == [task |-> x.task, node_type |-> x.node_type, node_id |-> x.node_id]

\* _check_and_reassign_timeout_tasks: the next dataset of the pass, doing copied
\* and cur read; past the last dataset the sweeper sleeps
SweepCopy ==
    /\ swSnap = <<>>
    /\ IF swPos < Len(datasets)
       THEN /\ swPos' = swPos + 1
            /\ swSnap' = [i \in 1..Len(dm[datasets[swPos + 1]].doing) |->
                            SweepEntry(dm[datasets[swPos + 1]].doing[i])]
            /\ swCur' = now
       ELSE /\ swPos' = 0
            /\ swSnap' = <<>>
            /\ swCur' = 0
    /\ UNCHANGED <<datasets, dm, wst, callbacks, now, last>>

\* a faulty variant of SweepCheck: the loop goes on after a timed-out task
SweepCheckWithoutBreak ==
    /\ swSnap # <<>>
    /\ LET e == Head(swSnap)
           name == datasets[swPos]
           hit == SweepTimedOut(e, SweepStart(e, swCur), swCur)
           r == SweepReport(dm[name], e.task.task_id)
       IN /\ dm' = IF hit THEN [dm EXCEPT ![name] = r.dm] ELSE dm
          /\ swSnap' = Tail(swSnap)
          /\ last' = IF ~hit THEN last
                     ELSE [NoOp EXCEPT !.op = "sweep", !.ds = name,
                                       !.task = e.task,
                                       !.node_type = e.node_type,
                                       !.node_id = e.node_id,
                                       !.ok = TRUE,
                                       !.calls = InvokeTaskTimeoutCallback(e.node_id),
                                       !.writes = (r.doing_task # NoDoing),
                                       !.locked = FALSE]
    /\ UNCHANGED <<datasets, wst, callbacks, now, swPos, swCur>>

\* _check_and_reassign_timeout_tasks: the loop body for one copied doing-task
SweepCheck ==
    /\ swSnap # <<>>
    /\ LET e == Head(swSnap)
           name == datasets[swPos]
           hit == SweepTimedOut(e, SweepStart(e, swCur), swCur)
           r == SweepReport(dm[name], e.task.task_id)
       IN /\ dm' = IF hit THEN [dm EXCEPT ![name] = r.dm] ELSE dm
          /\ swSnap' = IF hit THEN <<>> ELSE Tail(swSnap)
          /\ last' = IF ~hit THEN last
                     ELSE [NoOp EXCEPT !.op = "sweep", !.ds = name,
                                       !.task = e.task,
                                       !.node_type = e.node_type,
                                       !.node_id = e.node_id,
                                       !.ok = TRUE,
                                       !.calls = InvokeTaskTimeoutCallback(e.node_id),
                                       !.writes = (r.doing_task # NoDoing),
                                       !.locked = FALSE]
    /\ UNCHANGED <<datasets, wst, callbacks, now, swPos, swCur>>

\* ---------------------------------------------------- JobResourceOptimizer
\* A group is NodeGroupResource{count, node_resource{cpu, memory}}; a plan holds
\* the WORKER and the PS group of ResourcePlan.node_group_resources, NoGroup
\* when the key is absent.
NoGroup == [count |-> -1, cpu |-> -1, memory |-> -1]
Group(c, u, m) == [count |-> c, cpu |-> u, memory |-> m]
EmptyPlan == [worker |-> NoGroup, ps |-> NoGroup]

\* ResourcePlan.empty
PlanEmpty(plan) == plan.worker = NoGroup /\ plan.ps = NoGroup

\* ResourcePlan.new_default_plan
DefaultPlan == [worker |-> Group(1, 1, MIN_VALID_MEMORY), ps |-> Group(1, 1, MIN_VALID_MEMORY)]

\* ResourcePlan.adjust_plan_by_context: the PS count is held to MAX_PS_NUM
AdjustPlanByContext(plan) ==
    IF plan.ps = NoGroup THEN plan
    ELSE [plan EXCEPT !.ps.count = Min(@, MAX_PS_NUM)]

\* NodeGroupResource.update: only the positive arguments are taken
GroupUpdate(g, count, cpu, memory) ==
    [count |-> IF count > 0 THEN count ELSE g.count,
     cpu |-> IF cpu > 0 THEN cpu ELSE g.cpu,
     memory |-> IF memory > 0 THEN memory ELSE g.memory]

\* a faulty variant of IncrementMemory: the factor is below one
IncrementMemoryShrinks(m) == m \div INCREMENTAL_MEMORY_FACTOR_DEN

\* int(cur_mem * INCREMENTAL_MEMORY_FACTOR)
IncrementMemory(m) == (m * INCREMENTAL_MEMORY_FACTOR_NUM) \div INCREMENTAL_MEMORY_FACTOR_DEN

Max3(a, b, c) == Max(a, Max(b, c))

Stages == <<"CREATE", "WORKER_INITIAL", "PS_INITIAL", "RUNNING">>
StageRank(st) == CHOOSE i \in 1..Len(Stages) : Stages[i] = st

VARIABLES
    jobStage,               \* _job_stage
    workerResource,         \* _worker_resource
    psResource,             \* _ps_resource
    originalWorkerResource, \* _original_worker_resource
    originalPsResource,     \* _original_ps_resource
    optimizeWorkerSampled,  \* optimize_worker_sampled
    easydl,                 \* Context: easydl_worker_enabled, easydl_ps_enabled
    jlast                   \* the last JobResourceOptimizer call and its result

jrVars == <<jobStage, workerResource, psResource, originalWorkerResource,
            originalPsResource, optimizeWorkerSampled, easydl, jlast>>


\* the worker resources the user declares: nothing, all of them, or a count
\* with a memory too small to be valid
DeclaredWorkers ==
    {Group(0, 0, 0), Group(1, 1, MIN_VALID_MEMORY), Group(1, 0, MIN_VALID_MEMORY - 1)}

\* the PS resources the user declares: nothing, or more PS than MAX_PS_NUM
DeclaredPs == {Group(0, 0, 0), Group(MAX_PS_NUM + 1, 1, MIN_VALID_MEMORY)}

\* the groups an optimizer proposes
ProposedGroups ==
    {Group(0, 0, 0), Group(MaxCount, MaxCpu, MaxMem), Group(MaxCount, 1, MIN_VALID_MEMORY - 1)}

\* the plans an optimizer answers: nothing, a worker group, a PS group
OptimizerPlans ==
    {EmptyPlan}
    \cup {[worker |-> g, ps |-> NoGroup] : g \in ProposedGroups}
    \cup {[worker |-> NoGroup, ps |-> g] : g \in ProposedGroups}

\* op: the call; stage: _job_stage when it was made; reqs: what it asked the
\* optimizer for; no_plan: every answer of the optimizer was an empty plan;
\* applied: the groups whose live resource it wrote from a plan;
\* ret: "plan" (a plan with groups), "empty" (ResourcePlan()), "none" (None),
\* "raised" (an exception left the call), "void"; plan: the plan returned;
\* node_before, node_after: the OOM node's config_resource.memory;
\* training_started, answer: the argument of adjust_oom_ps_resource and the
\* plan of the optimizer that the call worked with;
\* first_empty: the first answer get_job_resource_plan got was an empty plan
JNoOp == [op |-> "init", stage |-> "CREATE", reqs |-> <<>>, no_plan |-> FALSE,
          first_empty |-> FALSE,
          applied |-> {}, ret |-> "void", plan |-> EmptyPlan,
          node_before |-> 0, node_after |-> 0,
          training_started |-> FALSE, answer |-> EmptyPlan]

\* the groups of a plan, as the names jlast.applied uses
PlanGroups(plan) ==
    (IF plan.worker # NoGroup THEN {"worker"} ELSE {})
    \cup (IF plan.ps # NoGroup THEN {"ps"} ELSE {})

\* JobResourceOptimizer.__init__
JRInit(worker, ps, flags) ==
    /\ jobStage = "CREATE"
    /\ workerResource = worker
    /\ psResource = ps
    /\ originalWorkerResource = worker
    /\ originalPsResource = ps
    /\ optimizeWorkerSampled = FALSE
    /\ easydl = flags
    /\ jlast = JNoOp

\* a faulty variant of CheckIgnoreOriginal: a declared memory never overrides
\* the proposed memory
CheckIgnoreOriginalTakesMemory(original, g) ==
    Group(IF original.count > 0 THEN original.count ELSE g.count,
          IF original.cpu >= MIN_VALID_CPU THEN original.cpu ELSE g.cpu,
          g.memory)

\* _check_ignore_original_worker_resource / _check_ignore_original_ps_resource
CheckIgnoreOriginal(original, g) ==
    Group(IF original.count > 0 THEN original.count ELSE g.count,
          IF original.cpu >= MIN_VALID_CPU THEN original.cpu ELSE g.cpu,
          IF original.memory >= MIN_VALID_MEMORY THEN original.memory ELSE g.memory)

\* _init_job_resource_by_optimizer, called by init_job_resource
InitJobResource(answer) ==
    LET plan == IF PlanEmpty(answer) THEN DefaultPlan ELSE answer
        w == CheckIgnoreOriginal(originalWorkerResource, plan.worker)
        p == CheckIgnoreOriginal(originalPsResource, plan.ps)
    IN /\ jobStage' = "WORKER_INITIAL"
       /\ workerResource' =
            IF easydl.worker /\ plan.worker # NoGroup
            THEN GroupUpdate(workerResource, w.count, w.cpu, w.memory)
            ELSE workerResource
       /\ psResource' =
            IF easydl.ps /\ plan.ps # NoGroup
            THEN GroupUpdate(psResource, p.count, p.cpu, p.memory)
            ELSE psResource
       /\ jlast' = [JNoOp EXCEPT !.op = "init_job_resource", !.stage = jobStage,
                                 !.reqs = <<jobStage>>,
                                 !.no_plan = PlanEmpty(answer),
                                 !.applied =
                                    PlanGroups(plan)
                                    \cap ((IF easydl.worker THEN {"worker"} ELSE {})
                                          \cup (IF easydl.ps THEN {"ps"} ELSE {}))]
       /\ UNCHANGED <<originalWorkerResource, originalPsResource,
                      optimizeWorkerSampled, easydl>>

\* _verify_optimized_group_resource(plan, WORKER): the live worker resource
VerifyWorker(g) == CheckIgnoreOriginal(originalWorkerResource, g)

\* _verify_optimized_group_resource(plan, PS): the live PS resource
VerifyPs(g) ==
    LET v == CheckIgnoreOriginal(originalPsResource, g)
    IN [v EXCEPT !.count = Min(v.count, MAX_PS_NUM)]

\* _verify_optimized_group_resource: the group written back into the plan
VerifiedGroup(original, g) == CheckIgnoreOriginal(original, g)

\* a faulty variant of StagePlan: every worker plan in RUNNING is asked for
\* with phase SAMPLE
StagePlanSamplesAgain(first, second) ==
    IF jobStage = "WORKER_INITIAL"
    THEN [none |-> PlanEmpty(first), plan |-> first, reqs |-> <<"INITIAL">>]
    ELSE IF jobStage = "PS_INITIAL"
    THEN [none |-> FALSE, plan |-> first, reqs |-> <<"PS_INITIAL">>]
    ELSE IF jobStage = "RUNNING"
    THEN IF PlanEmpty(first)
         THEN [none |-> FALSE, plan |-> second, reqs |-> <<"RUNNING", "SAMPLE">>]
         ELSE [none |-> FALSE, plan |-> first, reqs |-> <<"RUNNING">>]
    ELSE [none |-> TRUE, plan |-> EmptyPlan, reqs |-> <<>>]

\* get_job_resource_plan: the plan the stage's branch asks the optimizer for;
\* "None" when _get_worker_resource_at_init_phase returns nothing or no branch ran
StagePlan(first, second) ==
    IF jobStage = "WORKER_INITIAL"
    THEN [none |-> PlanEmpty(first), plan |-> first, reqs |-> <<"INITIAL">>]
    ELSE IF jobStage = "PS_INITIAL"
    THEN [none |-> FALSE, plan |-> first, reqs |-> <<"PS_INITIAL">>]
    ELSE IF jobStage = "RUNNING"
    THEN IF PlanEmpty(first)
         THEN [none |-> FALSE, plan |-> second,
               reqs |-> <<"RUNNING", IF optimizeWorkerSampled THEN "STABLE" ELSE "SAMPLE">>]
         ELSE [none |-> FALSE, plan |-> first, reqs |-> <<"RUNNING">>]
    ELSE [none |-> TRUE, plan |-> EmptyPlan, reqs |-> <<>>]

\* a faulty variant of StageAfterPlan: a call in RUNNING goes back to PS_INITIAL
StageAfterPlanRewinds(stage) ==
    IF stage = "WORKER_INITIAL" THEN "PS_INITIAL"
    ELSE IF stage = "PS_INITIAL" THEN "RUNNING"
    ELSE IF stage = "RUNNING" THEN "PS_INITIAL"
    ELSE stage

\* get_job_resource_plan: _job_stage after the stage's branch
StageAfterPlan(stage) ==
    IF stage = "WORKER_INITIAL" THEN "PS_INITIAL"
    ELSE IF stage = "PS_INITIAL" THEN "RUNNING"
    ELSE stage

\* JobResourceOptimizer.get_job_resource_plan
GetJobResourcePlan(first, second) ==
    LET sp == StagePlan(first, second)
        plan == sp.plan
        raised == sp.none
        applied == ~raised /\ ~PlanEmpty(plan)
        out == AdjustPlanByContext(
                [worker |-> IF plan.worker = NoGroup THEN NoGroup
                            ELSE VerifiedGroup(originalWorkerResource, plan.worker),
                 ps |-> IF plan.ps = NoGroup THEN NoGroup
                        ELSE VerifiedGroup(originalPsResource, plan.ps)])
    IN /\ jobStage' = StageAfterPlan(jobStage)
       /\ optimizeWorkerSampled' =
            (optimizeWorkerSampled \/ (jobStage = "RUNNING" /\ PlanEmpty(first)))
       /\ workerResource' = IF applied /\ plan.worker # NoGroup
                            THEN VerifyWorker(plan.worker) ELSE workerResource
       /\ psResource' = IF applied /\ plan.ps # NoGroup
                        THEN VerifyPs(plan.ps) ELSE psResource
       /\ jlast' = [JNoOp EXCEPT !.op = "get_job_resource_plan",
                                 !.stage = jobStage,
                                 !.reqs = sp.reqs,
                                 !.first_empty = PlanEmpty(first),
                                 !.no_plan = PlanEmpty(first) /\
                                    (Len(sp.reqs) = 2 => PlanEmpty(second)),
                                 !.applied = IF applied THEN PlanGroups(plan) ELSE {},
                                 !.ret = IF raised THEN "raised"
                                         ELSE IF applied THEN "plan" ELSE "none",
                                 !.plan = IF applied THEN out ELSE EmptyPlan,
                                 !.answer = IF applied THEN plan ELSE EmptyPlan]
       /\ UNCHANGED <<originalWorkerResource, originalPsResource, easydl>>

\* optimize_worker_resource: the worker group of the INITIAL-phase plan, unfiltered
OptimizeWorkerResource(answer) ==
    IF answer.worker # NoGroup
    THEN GroupUpdate(workerResource, answer.worker.count, answer.worker.cpu,
                     answer.worker.memory)
    ELSE workerResource

\* JobResourceOptimizer.adjust_oom_worker_resource
AdjustOomWorkerResource(node_memory, answer) ==
    LET w == IF easydl.worker /\ jobStage = "WORKER_INITIAL"
             THEN IF answer.worker # NoGroup
                  THEN [workerResource EXCEPT !.memory = Max(@, answer.worker.memory)]
                  ELSE workerResource
             ELSE OptimizeWorkerResource(answer)
    IN /\ workerResource' = w
       /\ jlast' = [JNoOp EXCEPT !.op = "adjust_oom_worker_resource",
                                 !.stage = jobStage,
                                 !.reqs = <<IF easydl.worker /\ jobStage = "WORKER_INITIAL"
                                            THEN "OOM" ELSE "INITIAL">>,
                                 !.no_plan = PlanEmpty(answer),
                                 !.applied = PlanGroups(answer),
                                 !.answer = answer,
                                 !.node_before = node_memory,
                                 !.node_after =
                                    Max3(w.memory, IncrementMemory(node_memory),
                                         originalWorkerResource.memory)]
       /\ UNCHANGED <<jobStage, psResource, originalWorkerResource,
                      originalPsResource, optimizeWorkerSampled, easydl>>

\* a faulty variant of PsReplan: training_started is not looked at
PsReplanWhileTraining(training_started, answer) ==
    /\ answer.ps # NoGroup
    /\ answer.ps.count > 0
    /\ answer.ps.memory < MAX_MEMORY

\* adjust_oom_ps_resource: the test of the branch that returns the plan
PsReplan(training_started, answer) ==
    /\ answer.ps # NoGroup
    /\ ~training_started
    /\ answer.ps.count > 0
    /\ answer.ps.memory < MAX_MEMORY

\* JobResourceOptimizer.adjust_oom_ps_resource
AdjustOomPsResource(node_memory, training_started, answer) ==
    LET some == answer.ps # NoGroup
        replan == PsReplan(training_started, answer)
        p == IF replan THEN VerifyPs(answer.ps)
             ELSE IF some THEN [psResource EXCEPT !.memory = Max(@, answer.ps.memory)]
             ELSE psResource
    IN /\ psResource' = p
       /\ jlast' = [JNoOp EXCEPT !.op = "adjust_oom_ps_resource",
                                 !.stage = jobStage,
                                 !.reqs = <<"OOM">>,
                                 !.no_plan = PlanEmpty(answer),
                                 !.applied = PlanGroups(answer),
                                 !.training_started = training_started,
                                 !.answer = answer,
                                 !.ret = IF replan THEN "plan" ELSE "empty",
                                 !.plan = IF replan
                                          THEN AdjustPlanByContext(
                                                [worker |-> NoGroup,
                                                 ps |-> VerifiedGroup(originalPsResource,
                                                                      answer.ps)])
                                          ELSE EmptyPlan,
                                 !.node_before = node_memory,
                                 !.node_after =
                                    IF replan THEN node_memory
                                    ELSE Max3(p.memory, IncrementMemory(node_memory),
                                              originalPsResource.memory)]
       /\ UNCHANGED <<jobStage, workerResource, originalWorkerResource,
                      originalPsResource, optimizeWorkerSampled, easydl>>

\* ------------------------------------ get_job_resource_plan, thread by thread
\* JobResourceOptimizer._lock is created in __init__ and taken nowhere, so a
\* get_job_resource_plan call is modelled in the steps at which another thread
\* can see or change _job_stage and optimize_worker_sampled.
JobThreads == {1, 2}

VARIABLES
    jtPc,         \* thread -> where it is in get_job_resource_plan, and its plan
    optRequests   \* how often the optimizer was asked, per phase

jtVars == <<jtPc, optRequests>>

CountedPhases == {"INITIAL", "PS_INITIAL", "SAMPLE"}

\* pc: "idle", "wi", "wi_set", "ps", "ps_set", "run", "worker", "sample",
\* "stable", "check"; none: plan is None
ThreadIdle == [pc |-> "idle", plan |-> EmptyPlan, none |-> FALSE]

JTInit ==
    /\ jtPc = [t \in JobThreads |-> ThreadIdle]
    /\ optRequests = [ph \in CountedPhases |-> 0]

\* get_job_resource_plan: plan = None and the tests of _job_stage
PlanEnter(t) ==
    /\ jtPc[t].pc = "idle"
    /\ jtPc' = [jtPc EXCEPT ![t] =
                  IF jobStage = "WORKER_INITIAL" THEN [ThreadIdle EXCEPT !.pc = "wi"]
                  ELSE IF jobStage = "PS_INITIAL" THEN [ThreadIdle EXCEPT !.pc = "ps"]
                  ELSE IF jobStage = "RUNNING" THEN [ThreadIdle EXCEPT !.pc = "run"]
                  ELSE [ThreadIdle EXCEPT !.pc = "check", !.none = TRUE]]
    /\ UNCHANGED <<jrVars, optRequests>>

\* the phase a request counts under: _get_ps_resource_plan passes the
\* _job_stage it reads when it runs
RequestPhase(pc) ==
    IF pc = "wi" THEN "INITIAL"
    ELSE IF pc = "sample" THEN "SAMPLE"
    ELSE IF pc \in {"ps", "run"} /\ jobStage = "PS_INITIAL" THEN "PS_INITIAL"
    ELSE "none"

Requested(pc) ==
    IF RequestPhase(pc) \in CountedPhases
    THEN [optRequests EXCEPT ![RequestPhase(pc)] = @ + 1]
    ELSE optRequests

\* the branch's request: _get_worker_resource_at_init_phase or _get_ps_resource_plan
PlanRequest(t, answer) ==
    /\ jtPc[t].pc \in {"wi", "ps", "run"}
    /\ optRequests' = Requested(jtPc[t].pc)
    /\ jtPc' = [jtPc EXCEPT ![t] =
                  IF jtPc[t].pc = "wi"
                  THEN [pc |-> "wi_set", plan |-> answer, none |-> PlanEmpty(answer)]
                  ELSE IF jtPc[t].pc = "ps"
                  THEN [pc |-> "ps_set", plan |-> answer, none |-> FALSE]
                  ELSE [pc |-> IF PlanEmpty(answer) THEN "worker" ELSE "check",
                        plan |-> answer, none |-> FALSE]]
    /\ UNCHANGED jrVars

\* the branch's assignment of self._job_stage
PlanSetStage(t) ==
    /\ jtPc[t].pc \in {"wi_set", "ps_set"}
    /\ jobStage' = IF jtPc[t].pc = "wi_set" THEN "PS_INITIAL" ELSE "RUNNING"
    /\ jtPc' = [jtPc EXCEPT ![t].pc = "check"]
    /\ UNCHANGED <<workerResource, psResource, originalWorkerResource,
                   originalPsResource, optimizeWorkerSampled, easydl, jlast,
                   optRequests>>

\* _get_worker_resource_at_running: the test of optimize_worker_sampled
PlanSampleTest(t) ==
    /\ jtPc[t].pc = "worker"
    /\ jtPc' = [jtPc EXCEPT ![t].pc = IF optimizeWorkerSampled THEN "stable" ELSE "sample"]
    /\ UNCHANGED <<jrVars, optRequests>>

\* _get_worker_resource_at_running: the SAMPLE or STABLE request, and the flag
PlanWorkerRequest(t, answer) ==
    /\ jtPc[t].pc \in {"sample", "stable"}
    /\ optRequests' = Requested(jtPc[t].pc)
    /\ optimizeWorkerSampled' = (optimizeWorkerSampled \/ jtPc[t].pc = "sample")
    /\ jtPc' = [jtPc EXCEPT ![t] = [pc |-> "check", plan |-> answer, none |-> FALSE]]
    /\ UNCHANGED <<jobStage, workerResource, psResource, originalWorkerResource,
                   originalPsResource, easydl, jlast>>

\* get_job_resource_plan from `if plan.empty()` to the return
PlanReturn(t) ==
    LET plan == jtPc[t].plan
        raised == jtPc[t].none
        applied == ~raised /\ ~PlanEmpty(plan)
        out == AdjustPlanByContext(
                [worker |-> IF plan.worker = NoGroup THEN NoGroup
                            ELSE VerifiedGroup(originalWorkerResource, plan.worker),
                 ps |-> IF plan.ps = NoGroup THEN NoGroup
                        ELSE VerifiedGroup(originalPsResource, plan.ps)])
    IN /\ jtPc[t].pc = "check"
       /\ workerResource' = IF applied /\ plan.worker # NoGroup
                            THEN VerifyWorker(plan.worker) ELSE workerResource
       /\ psResource' = IF applied /\ plan.ps # NoGroup
                        THEN VerifyPs(plan.ps) ELSE psResource
       /\ jlast' = [JNoOp EXCEPT !.op = "get_job_resource_plan",
                                 !.stage = jobStage,
                                 !.no_plan = PlanEmpty(plan),
                                 !.applied = IF applied THEN PlanGroups(plan) ELSE {},
                                 !.ret = IF raised THEN "raised"
                                         ELSE IF applied THEN "plan" ELSE "none",
                                 !.plan = IF applied THEN out ELSE EmptyPlan]
       /\ jtPc' = [jtPc EXCEPT ![t] = ThreadIdle]
       /\ UNCHANGED <<jobStage, originalWorkerResource, originalPsResource,
                      optimizeWorkerSampled, easydl, optRequests>>

\* ------------------------------------------------------------ MasterServicer
\* BatchDatasetManager.completed
Completed(d) == EpochFinished(d) /\ d.todo = <<>> /\ d.doing = <<>>

\* a faulty variant of Finished: is_dataset_initialized() is not asked
FinishedWithoutDatasets ==
    \A i \in 1..Len(datasets) : Completed(dm[datasets[i]])

\* TaskManager.finished
Finished ==
    /\ datasets # <<>>
    /\ \A i \in 1..Len(datasets) : Completed(dm[datasets[i]])

VARIABLES
    svStartTrainingTime,  \* MasterServicer._start_training_time (-1: None)
    svStartAutoscale,     \* MasterServicer._start_autoscale
    autoScaleCalls,       \* how often node_manager.start_auto_scale() was called
    sampleCount,          \* speed_monitor.get_sample_count()
    completedGlobalStep,  \* speed_monitor.completed_global_step
    svCfg,                \* which collaborators the servicer was built with
    svPc,                 \* handler thread -> where it is in its handler
    slast                 \* the last response of the servicer

svVars == <<svStartTrainingTime, svStartAutoscale, autoScaleCalls, sampleCount,
            completedGlobalStep, svCfg, svPc, slast>>

Handlers == {1, 2}

\* op: the handler running on the thread; pc: "idle", "cond1", "cond2",
\* "check", "start"; task: what report_dataset_task returned (NoTask: None);
\* then: where the thread goes on after start_auto_scale()
HandlerIdle == [op |-> "none", pc |-> "idle", task |-> NoTask, then |-> "idle"]

\* tick flips at every response; type, task_id, shard: the Task message;
\* running: len(node_manager.get_running_workers()) the call saw
NoResponse == [op |-> "init", tick |-> FALSE, ret |-> "ok", ds |-> "none",
               type |-> "NONE", task_id |-> -1, shard |-> <<0, 0>>, running |-> 0]

\* MasterServicer.__init__
SVInit(rendezvous_server, job_metric_collector) ==
    /\ svStartTrainingTime = -1
    /\ svStartAutoscale = FALSE
    /\ autoScaleCalls = 0
    /\ sampleCount = 0
    /\ completedGlobalStep = 0
    /\ svCfg = [rendezvous_server |-> rendezvous_server,
                job_metric_collector |-> job_metric_collector]
    /\ svPc = [h \in Handlers |-> HandlerIdle]
    /\ slast = NoResponse

Response(op, ds) == [NoResponse EXCEPT !.op = op, !.ds = ds, !.tick = ~slast.tick]

\* a faulty variant of TaskResponse: the shard is left out
TaskResponseWithoutShard(res, task) ==
    [res EXCEPT !.task_id = task.task_id, !.type = task.task_type]

\* get_task: the Task message filled from the task the TaskManager returned
TaskResponse(res, task) ==
    [res EXCEPT !.task_id = task.task_id, !.type = task.task_type,
                !.shard = task.shard]

\* a faulty variant of WaitOrEmpty: WAIT whatever the number of running workers
WaitOrEmptyAnyWorkers(res, completed, running) ==
    IF ~completed THEN [res EXCEPT !.type = "WAIT"] ELSE res

\* get_task: the answer when the TaskManager returned no task
WaitOrEmpty(res, completed, running) ==
    IF ~completed
    THEN IF svCfg.rendezvous_server
         THEN IF running = 1 THEN [res EXCEPT !.type = "WAIT"] ELSE res
         ELSE [res EXCEPT !.type = "WAIT"]
    ELSE res

\* MasterServicer.get_task. The TaskManager hands back the invalid task
\* (NoTask) when it has nothing to dispatch, and the servicer takes that as
\* no task.
GetTask(node_type, node_id, name, running) ==
    LET res == [Response("get_task", name) EXCEPT !.running = running]
    IN /\ svStartTrainingTime' =
            IF svStartTrainingTime = -1 THEN now ELSE svStartTrainingTime
       /\ IF ~Registered(name)
          THEN /\ slast' = res
               /\ UNCHANGED tmVars
          ELSE LET r == DMGetTask(dm[name], node_type, node_id, now)
               IN /\ GetDatasetTask(node_type, node_id, name)
                  /\ slast' = IF r.task # NoTask THEN TaskResponse(res, r.task)
                              ELSE WaitOrEmpty(res, Completed(r.dm), running)
       /\ UNCHANGED <<svStartAutoscale, autoScaleCalls, sampleCount,
                      completedGlobalStep, svCfg, svPc>>


\* _dlrover_context.seconds_to_autoscale_worker, in ticks of now
SecondsToAutoscaleWorker == 1
\* _dlrover_context.sample_count_to_adjust_worker
SampleCountToAdjustWorker == 2
\* the global steps a worker reports
GlobalSteps == {0, 1}

\* the handler on thread h returns (ret: "ok" or the exception it raised)
Return(h, ret) ==
    /\ slast' = [Response(svPc[h].op, "none") EXCEPT !.ret = ret]
    /\ svPc' = [svPc EXCEPT ![h] = HandlerIdle]

Goto(h, pc) == svPc' = [svPc EXCEPT ![h].pc = pc]

\* report_task_result, up to the return of report_dataset_task, which raises
\* ValueError for an unknown dataset
ReportTaskResult(h, name, task_id, success) ==
    /\ svPc[h].pc = "idle"
    /\ ReportDatasetTask(name, task_id, success)
    /\ IF ~Registered(name)
       THEN /\ slast' = [Response("report_task_result", name)
                            EXCEPT !.ret = "ValueError"]
            /\ UNCHANGED svPc
       ELSE LET r == ReportStatus(dm[name], task_id, success)
            IN /\ svPc' = [svPc EXCEPT ![h] =
                    [op |-> "report_task_result", pc |-> "cond1",
                     task |-> IF r.success THEN r.doing_task.task ELSE NoTask,
                     then |-> "cond2"]]
               /\ UNCHANGED slast
    /\ UNCHANGED <<svStartTrainingTime, svStartAutoscale, autoScaleCalls,
                   sampleCount, completedGlobalStep, svCfg>>

\* report_task_result: the test of the non-training trigger; the subtraction
\* raises TypeError while _start_training_time is None
NonTrainingTrigger(h) ==
    /\ svPc[h].pc = "cond1"
    /\ IF svStartAutoscale \/ completedGlobalStep # 0
       THEN Goto(h, "cond2") /\ UNCHANGED slast
       ELSE IF svStartTrainingTime = -1
       THEN Return(h, "TypeError")
       ELSE IF now - svStartTrainingTime > SecondsToAutoscaleWorker
       THEN Goto(h, "start") /\ UNCHANGED slast
       ELSE Goto(h, "cond2") /\ UNCHANGED slast
    /\ UNCHANGED <<svStartTrainingTime, svStartAutoscale, autoScaleCalls,
                   sampleCount, completedGlobalStep, svCfg>>
    /\ UNCHANGED tmVars

\* node_manager.start_auto_scale(); self._start_autoscale = True
StartAutoScale(h) ==
    /\ svPc[h].pc = "start"
    /\ autoScaleCalls' = autoScaleCalls + 1
    /\ svStartAutoscale' = TRUE
    /\ IF svPc[h].then = "idle"
       THEN Return(h, "ok")
       ELSE Goto(h, svPc[h].then) /\ UNCHANGED slast
    /\ UNCHANGED <<svStartTrainingTime, sampleCount, completedGlobalStep, svCfg>>
    /\ UNCHANGED tmVars

\* report_task_result: the test for a PREDICTION task; task.task_type raises
\* AttributeError when report_dataset_task returned None
PredictionStats(h) ==
    /\ svPc[h].pc = "cond2"
    /\ IF ~svCfg.job_metric_collector
       THEN Return(h, "ok")
       ELSE IF svPc[h].task = NoTask
       THEN Return(h, "AttributeError")
       ELSE IF svPc[h].task.task_type = "PREDICTION"
       THEN Goto(h, "check") /\ UNCHANGED slast
       ELSE Return(h, "ok")
    /\ UNCHANGED <<svStartTrainingTime, svStartAutoscale, autoScaleCalls,
                   sampleCount, completedGlobalStep, svCfg>>
    /\ UNCHANGED tmVars

\* report_global_step, up to _check_start_auto_scale_worker:
\* SpeedMonitor.collect_global_step records the step and one more sample
ReportGlobalStep(h, global_step) ==
    /\ svPc[h].pc = "idle"
    /\ sampleCount < MaxSamples
    /\ completedGlobalStep' = global_step
    /\ sampleCount' = sampleCount + 1
    /\ svPc' = [svPc EXCEPT ![h] = [op |-> "report_global_step", pc |-> "check",
                                    task |-> NoTask, then |-> "idle"]]
    /\ UNCHANGED <<svStartTrainingTime, svStartAutoscale, autoScaleCalls,
                   svCfg, slast>>
    /\ UNCHANGED tmVars

\* _check_start_auto_scale_worker: the test of the sample-count trigger
CheckStartAutoScaleWorker(h) ==
    /\ svPc[h].pc = "check"
    /\ IF ~svStartAutoscale /\ sampleCount >= SampleCountToAdjustWorker
       THEN svPc' = [svPc EXCEPT ![h].pc = "start", ![h].then = "idle"]
            /\ UNCHANGED slast
       ELSE Return(h, "ok")
    /\ UNCHANGED <<svStartTrainingTime, svStartAutoscale, autoScaleCalls,
                   sampleCount, completedGlobalStep, svCfg>>
    /\ UNCHANGED tmVars

\* ------------------------------------------------- dataset shard checkpoints
VARIABLES
    ckpt,       \* the checkpoint a client holds: its JSON, the dataset as it
                \* was when the checkpoint was taken, what the client sent
                \* back last and how many documents it has sent back
    handedOut   \* dataset name -> the task ids get_dataset_task has returned

cpVars == <<ckpt, handedOut>>

NoJson == <<>>
NoCheckpoint == [json |-> NoJson, before |-> Unregistered, sent |-> NoJson,
                 restores |-> 0]

CPInit ==
    /\ ckpt = NoCheckpoint
    /\ handedOut = [n \in DatasetNames |-> {}]

\* BatchDatasetManager.checkpoint -> DatasetShardCheckpoint
Checkpoint(name, d) ==
    [dataset_name |-> name, todo |-> d.todo, doing |-> d.doing,
     epoch |-> d.epoch, splitter_state |-> d.epoch]

\* DatasetShardCheckpoint.to_json: the five keys in order, each task a list
ToJson(c) ==
    <<c.dataset_name,
      [i \in 1..Len(c.todo) |->
          <<c.todo[i].task_id, c.todo[i].task_type,
            c.todo[i].shard[1], c.todo[i].shard[2]>>],
      [i \in 1..Len(c.doing) |->
          <<c.doing[i].task.task_id, c.doing[i].task.task_type,
            c.doing[i].task.shard[1], c.doing[i].task.shard[2],
            c.doing[i].node_type, c.doing[i].node_id, c.doing[i].start_time>>],
      c.epoch, c.splitter_state>>

\* json.loads accepts the document
WellFormed(json) == Len(json) = 5

\* DatasetShardCheckpoint.from_json
FromJson(json) ==
    [dataset_name |-> json[1],
     todo |-> [i \in 1..Len(json[2]) |->
                 [task_id |-> json[2][i][1], task_type |-> json[2][i][2],
                  shard |-> <<json[2][i][3], json[2][i][4]>>]],
     doing |-> [i \in 1..Len(json[3]) |->
                 [task |-> [task_id |-> json[3][i][1], task_type |-> json[3][i][2],
                            shard |-> <<json[3][i][3], json[3][i][4]>>],
                  node_type |-> json[3][i][5], node_id |-> json[3][i][6],
                  start_time |-> json[3][i][7]]],
     epoch |-> json[4], splitter_state |-> json[5]]

\* BatchDatasetManager.restore_checkpoint: the queues and the splitter's epoch
\* are taken from the checkpoint; the id counter, done and completed_step are
\* not part of it
RestoreCheckpoint(d, c) ==
    [d EXCEPT !.todo = c.todo, !.doing = c.doing, !.epoch = c.splitter_state]

\* TaskManager.get_dataset_checkpoint, and the to_json of the caller
GetDatasetCheckpoint(name) ==
    /\ Registered(name)
    /\ ckpt' = [ckpt EXCEPT !.json = ToJson(Checkpoint(name, dm[name])),
                            !.before = dm[name]]
    /\ UNCHANGED <<tmVars, handedOut>>

\* a faulty variant of RestoreDatasetFromCheckpoint: a dataset that is not
\* registered is restored as well
RestoreAnyDataset(json) ==
    /\ IF WellFormed(json)
       THEN LET c == FromJson(json)
                name == c.dataset_name
            IN /\ dm' = [dm EXCEPT ![name] = RestoreCheckpoint(dm[name], c)]
               /\ last' = [NoOp EXCEPT !.op = "restore", !.ds = name,
                                       !.ok = TRUE, !.writes = TRUE,
                                       !.locked = FALSE]
       ELSE /\ last' = [NoOp EXCEPT !.op = "restore", !.ok = FALSE]
            /\ UNCHANGED dm
    /\ UNCHANGED <<datasets, wst, callbacks, now, swPos, swSnap, swCur>>

\* a faulty variant of RestoreDatasetFromCheckpoint: the dataset is looked up
\* and True is returned, but restore_checkpoint is not called
RestoreWithoutRestoring(json) ==
    /\ IF WellFormed(json) /\ Registered(FromJson(json).dataset_name)
       THEN last' = [NoOp EXCEPT !.op = "restore",
                                 !.ds = FromJson(json).dataset_name,
                                 !.ok = TRUE, !.writes = TRUE, !.locked = FALSE]
       ELSE last' = [NoOp EXCEPT !.op = "restore", !.ok = FALSE]
    /\ UNCHANGED <<datasets, dm, wst, callbacks, now, swPos, swSnap, swCur>>

\* TaskManager.restore_dataset_from_checkpoint: True when the dataset was
\* restored, False when from_json or the restore raised (a malformed
\* document, no such dataset); it takes no lock
RestoreDatasetFromCheckpoint(json) ==
    /\ IF WellFormed(json) /\ Registered(FromJson(json).dataset_name)
       THEN LET c == FromJson(json)
                name == c.dataset_name
            IN /\ dm' = [dm EXCEPT ![name] = RestoreCheckpoint(dm[name], c)]
               /\ last' = [NoOp EXCEPT !.op = "restore", !.ds = name,
                                       !.ok = TRUE, !.writes = TRUE,
                                       !.locked = FALSE]
       ELSE /\ last' = [NoOp EXCEPT !.op = "restore", !.ok = FALSE]
            /\ UNCHANGED dm
    /\ UNCHANGED <<datasets, wst, callbacks, now, swPos, swSnap, swCur>>

\* report_shard_checkpoint: a client sends a document back
ReportShardCheckpoint(json) ==
    /\ ckpt.restores < MaxRestores
    /\ RestoreDatasetFromCheckpoint(json)
    /\ ckpt' = [ckpt EXCEPT !.sent = json, !.restores = @ + 1]
    /\ UNCHANGED handedOut

\* a well-formed document a client made up: dataset `name` with the tasks of
\* one epoch in todo
ForgedJson(name) ==
    ToJson(Checkpoint(name, CreateTodoTasks(NewDatasetManager("TRAINING", DatasetSize))))

\* what a client can send: the checkpoint it holds, an empty document, or a
\* made-up document for any name
SentDocuments == {ckpt.json, NoJson} \cup {ForgedJson(n) : n \in DatasetNames}

\* get_dataset_task, with the returned id noted
HandOut(node_type, node_id, name) ==
    /\ GetDatasetTask(node_type, node_id, name)
    /\ LET t == IF Registered(name)
                THEN DMGetTask(dm[name], node_type, node_id, now).task
                ELSE NoTask
       IN handedOut' = IF t = NoTask THEN handedOut
                       ELSE [handedOut EXCEPT ![name] = @ \cup {t.task_id}]
    /\ UNCHANGED ckpt

\* ------------------------------------------- calls of the TaskManager
VARIABLES
    tmCall,     \* the last call of a TaskManager method: arguments and result
    endTime     \* dataset name -> DatasetManager.get_latest_task_end_time()

obVars == <<tmCall, endTime>>

\* tick flips at every call. ret: "none" (None, or (None, None)), "task" (a
\* task, its id in task_id; the invalid task has id -1), "ValueError",
\* "true", "false"
NoCall == [op |-> "init", tick |-> FALSE, ds |-> "none", size |-> 0,
           task_id |-> -1, success |-> FALSE, ret |-> "none"]

OBInit ==
    /\ tmCall = NoCall
    /\ endTime = [n \in DatasetNames |-> 0]

Call(op, ds) == [NoCall EXCEPT !.op = op, !.ds = ds, !.tick = ~tmCall.tick]

Bool(b) == IF b THEN "true" ELSE "false"

\* time.time(): the wall clock, which is past zero when the master starts
TimeNow == now + 1

\* TaskManager.is_dataset_initialized
IsDatasetInitialized == datasets # <<>>

\* a faulty variant of TaskHanged: one hanging dataset is enough
TaskHangedAny ==
    \E i \in 1..Len(datasets) :
        /\ endTime[datasets[i]] > 0
        /\ TimeNow - endTime[datasets[i]] > TaskProcessTimeout

\* TaskManager.task_hanged
TaskHanged ==
    IF datasets # <<>>
    THEN \A i \in 1..Len(datasets) :
            /\ endTime[datasets[i]] > 0
            /\ TimeNow - endTime[datasets[i]] > TaskProcessTimeout
    ELSE FALSE

\* new_dataset as a caller sees it: it returns None
CallNewDataset(name, size, task_type) ==
    /\ NewDataset(name, size, task_type)
    /\ tmCall' = [Call("new_dataset", name) EXCEPT !.size = size]
    /\ UNCHANGED endTime

\* get_dataset_task as a caller sees it: None for an unknown dataset
CallGetDatasetTask(node_type, node_id, name) ==
    /\ GetDatasetTask(node_type, node_id, name)
    /\ tmCall' = IF ~Registered(name) THEN Call("get", name)
                 ELSE [Call("get", name) EXCEPT
                         !.ret = "task",
                         !.task_id = DMGetTask(dm[name], node_type, node_id,
                                               now).task.task_id]
    /\ UNCHANGED endTime

\* report_dataset_task as a caller sees it: ValueError for an unknown
\* dataset, the task of a successful report, (None, None) otherwise; a
\* successful report advances the dataset's latest_task_end_time
CallReportDatasetTask(name, task_id, success) ==
    /\ ReportDatasetTask(name, task_id, success)
    /\ LET c == [Call("report", name) EXCEPT !.task_id = task_id,
                                             !.success = success]
           r == ReportStatus(dm[name], task_id, success)
       IN IF ~Registered(name)
          THEN /\ tmCall' = [c EXCEPT !.ret = "ValueError"]
               /\ UNCHANGED endTime
          ELSE /\ tmCall' = [c EXCEPT !.ret = IF r.success THEN "task" ELSE "none"]
               /\ endTime' = IF r.success
                             THEN [endTime EXCEPT ![name] = TimeNow]
                             ELSE endTime

\* finished() as a caller sees it
CallFinished ==
    /\ tmCall' = [Call("finished", "none") EXCEPT !.ret = Bool(Finished)]
    /\ UNCHANGED <<tmVars, endTime>>

\* task_hanged() as a caller sees it
CallTaskHanged ==
    /\ tmCall' = [Call("task_hanged", "none") EXCEPT !.ret = Bool(TaskHanged)]
    /\ UNCHANGED <<tmVars, endTime>>

\* ------------------------------------------------- log rotation settings
\* common/log.py reads LOG_ROTATE_MAX_BYTES and LOG_ROTATE_BACKUP_COUNT from
\* the environment. A string is a sequence of characters; "sup2" stands for
\* the character U+00B2 (superscript two), for which str.isdigit() is true and
\* which int() does not accept.
MaxEnvLen == 2

DecimalDigits == {"0", "1", "2", "3", "4", "5", "6", "7", "8", "9"}
DigitValue ==
    ("0" :> 0) @@ ("1" :> 1) @@ ("2" :> 2) @@ ("3" :> 3) @@ ("4" :> 4) @@
    ("5" :> 5) @@ ("6" :> 6) @@ ("7" :> 7) @@ ("8" :> 8) @@ ("9" :> 9)
OtherDigits == {"sup2"}

\* the characters environment values are made of
EnvAlphabet == {"0", "1", "5", "a", "-", "sup2"}

\* longer values: around 1 MiB, with a leading zero, not a number
LongEnvValues ==
    {<<"1", "0", "4", "8", "5", "7", "5">>,
     <<"1", "0", "4", "8", "5", "7", "6">>,
     <<"0", "1", "0", "4", "8", "5", "7", "6">>,
     <<"1", "0", "4", "8", "5", "7", "6", "0">>,
     <<"1", "0", "4", "8", "5", "7", "6", "sup2">>,
     <<"1", "0", "2", "3">>,
     <<"i", "n", "v", "a", "l", "i", "d">>}

\* the values of an environment variable; the empty string is what
\* os.getenv(name, "") gives for a variable that is not set
EnvValues ==
    UNION {[1..n -> EnvAlphabet] : n \in 0..MaxEnvLen} \cup LongEnvValues

\* str.isdigit(): not empty and every character is a digit character
IsDigit(str) ==
    /\ str # <<>>
    /\ \A i \in 1..Len(str) : str[i] \in DecimalDigits \cup OtherDigits

\* int(str) of a string for which isdigit() holds: the string is a literal
\* when every character is a decimal digit, otherwise int raises ValueError
IntParses(str) == \A i \in 1..Len(str) : str[i] \in DecimalDigits

RECURSIVE IntValue(_)
IntValue(str) ==
    IF str = <<>> THEN 0
    ELSE 10 * IntValue(SubSeq(str, 1, Len(str) - 1)) + DigitValue[str[Len(str)]]

MinMaxBytes == 1024 * 1024
DefaultMaxBytes == 200 * 1024 * 1024
MinBackupCount == 1
DefaultBackupCount == 5

\* what a call gives: a number, or the exception that left it
Returned(n) == [ret |-> "value", value |-> n]
Raised(e) == [ret |-> e, value |-> 0]

\* the test `s and s.isdigit() and int(s) >= least`, then int(s) or the default
RotateSetting(str, least, default) ==
    IF str # <<>> /\ IsDigit(str)
    THEN IF ~IntParses(str) THEN Raised("ValueError")
         ELSE IF IntValue(str) >= least THEN Returned(IntValue(str))
         ELSE Returned(default)
    ELSE Returned(default)

\* get_file_handler_max_bytes
GetFileHandlerMaxBytes(max_bytes_str) ==
    RotateSetting(max_bytes_str, MinMaxBytes, DefaultMaxBytes)

\* get_file_handler_backup_count
GetFileHandlerBackupCount(backup_count_str) ==
    RotateSetting(backup_count_str, MinBackupCount, DefaultBackupCount)

VARIABLES
    logEnv,     \* os.environ: LOG_ROTATE_MAX_BYTES and LOG_ROTATE_BACKUP_COUNT
    logLast     \* the last call of one of the two functions and what it gave

lgVars == <<logEnv, logLast>>

NoLogCall == [op |-> "init", ret |-> "value", value |-> 0]

\* the process starts with the two variables set to any value, or not set
LGInit(max_bytes_str, backup_count_str) ==
    /\ logEnv = [max_bytes |-> max_bytes_str, backup_count |-> backup_count_str]
    /\ logLast = NoLogCall

CallGetFileHandlerMaxBytes ==
    /\ logLast' = [op |-> "get_file_handler_max_bytes"]
                    @@ GetFileHandlerMaxBytes(logEnv.max_bytes)
    /\ UNCHANGED logEnv

CallGetFileHandlerBackupCount ==
    /\ logLast' = [op |-> "get_file_handler_backup_count"]
                    @@ GetFileHandlerBackupCount(logEnv.backup_count)
    /\ UNCHANGED logEnv

\* ------------------------------------------------ AtorchEventCollector
\* A line of an event file is what parse_line looks at: the bracketed prefix
\* fields re.findall gives, of which the first is the timestamp and the fourth
\* to sixth are target, name and type, and the rest of the line, which
\* literal_eval reads: a dict with global_step, a dict without it, something
\* that is no dict, or text that is no literal.
MaxLines == 3
MaxRankLines == 1
MaxEventPrefix == 6

EventLine(target, name, type, step) ==
    [prefix |-> <<"ts", "id", "pid", target, name, type>>,
     payload |-> [kind |-> "dict", step |-> step]]

Payload(line, kind) == [line EXCEPT !.payload.kind = kind]

StepBegin(step) == EventLine("TRAINER", "TRAIN_EVT_STEP", "BEGIN", step)
StepEnd(step) == EventLine("TRAINER", "TRAIN_EVT_STEP", "END", step)
CkptBegin(step) == EventLine("SAVER", "TRAIN_EVT_FLASH_CKPT", "BEGIN", step)

ValidLines == {StepBegin(1), StepBegin(2), StepEnd(2), CkptBegin(2)}

\* one malformed line of each kind, each a changed StepBegin(2)
MalformedLines ==
    {[StepBegin(2) EXCEPT !.prefix = <<>>],
     [StepBegin(2) EXCEPT !.prefix = <<"ts", "id", "pid", "TRAINER", "TRAIN_EVT_STEP">>],
     [StepBegin(2) EXCEPT !.prefix[1] = "no date"],
     EventLine("OTHER", "TRAIN_EVT_STEP", "BEGIN", 2),
     EventLine("TRAINER", "OTHER", "BEGIN", 2),
     EventLine("TRAINER", "TRAIN_EVT_STEP", "OTHER", 2),
     Payload(StepBegin(2), "list"),
     Payload(StepBegin(2), "dict without global_step"),
     Payload(StepBegin(2), "no literal")}

\* the lines a writer appends when one rank is tailed, and when two are
LineSet == ValidLines \cup MalformedLines
RankLineSet == {StepBegin(1), StepBegin(2)}

NoEvent == [exc |-> "none", target |-> "none", name |-> "none",
            type |-> "none", step |-> 0]
ParseError(e) == [NoEvent EXCEPT !.exc = e]

\* AtorchEventCollector.parse_line: the event, or the exception it raises
ParseLine(line) ==
    IF line.prefix = <<>> THEN ParseError("AtorchNotFoundException")
    ELSE IF Len(line.prefix) # MaxEventPrefix THEN ParseError("AtorchInvalidException")
    ELSE IF line.prefix[1] # "ts" THEN ParseError("ValueError")
    ELSE IF line.prefix[4] \notin {"TRAINER", "SAVER"}
    THEN ParseError("AtorchNotFoundException")
    ELSE IF line.prefix[5] \notin {"TRAIN_EVT_STEP", "TRAIN_EVT_FLASH_CKPT"}
    THEN ParseError("AtorchNotFoundException")
    ELSE IF line.prefix[6] \notin {"BEGIN", "END"}
    THEN ParseError("AtorchNotFoundException")
    ELSE IF line.payload.kind = "no literal" THEN ParseError("SyntaxError")
    ELSE IF line.payload.kind = "list" THEN ParseError("ValueError")
    ELSE IF line.payload.kind = "dict without global_step" THEN ParseError("KeyError")
    ELSE [exc |-> "none", target |-> line.prefix[4], name |-> line.prefix[5],
          type |-> line.prefix[6], step |-> line.payload.step]

VARIABLES
    acRanks,        \* _ranks (local_world_size)
    acStop,         \* _stop_collector
    acFirstStep,    \* _first_step (0: None)
    acFile,         \* rank -> the event file: can it be opened, and its lines
    acPc,           \* rank -> the collector thread: where it is, how many
                    \* lines it has read, the event it holds, and whether it
                    \* has seen the stop flag set
    acReported      \* rank -> the events the thread reported to the master,
                    \* each with the number of its line

acVars == <<acRanks, acStop, acFirstStep, acFile, acPc, acReported>>

Ranks == {1, 2}

\* pc: "none" (no thread), "while" (collect_events: the loop test), "retry"
\* (sleeping retry_timeout), "monitor" (_monitor_file: the loop's top), "poll"
\* (sleeping one second at end of file), "first", "set", "report" (the two
\* tests on _first_step and the assignment between them), "done"
NoThread == [pc |-> "none", pos |-> 0, event |-> NoEvent, saw |-> FALSE]

\* AtorchEventCollector.__init__
ACInit(local_world_size) ==
    /\ acRanks = local_world_size
    /\ acStop = FALSE
    /\ acFirstStep = 0
    /\ acFile = [r \in Ranks |-> [readable |-> FALSE, lines |-> <<>>]]
    /\ acPc = [r \in Ranks |-> NoThread]
    /\ acReported = [r \in Ranks |-> <<>>]

\* start_collectors: one thread per rank
StartCollectors ==
    /\ \A r \in Ranks : acPc[r].pc = "none"
    /\ acStop' = FALSE
    /\ acPc' = [r \in Ranks |->
                    IF r <= acRanks THEN [acPc[r] EXCEPT !.pc = "while"] ELSE acPc[r]]
    /\ UNCHANGED <<acRanks, acFirstStep, acFile, acReported>>

\* stop_collectors
StopCollectors ==
    /\ ~acStop
    /\ acStop' = TRUE
    /\ UNCHANGED <<acRanks, acFirstStep, acFile, acPc, acReported>>

\* the training process appends a line to a rank's event file, creating it
AppendLine(r, line) ==
    /\ r <= acRanks
    /\ Len(acFile[r].lines) < (IF acRanks = 1 THEN MaxLines ELSE MaxRankLines)
    /\ line \in (IF acRanks = 1 THEN LineSet ELSE RankLineSet)
    /\ acFile' = [acFile EXCEPT ![r] =
                    [readable |-> TRUE, lines |-> Append(acFile[r].lines, line)]]
    /\ UNCHANGED <<acRanks, acStop, acFirstStep, acPc, acReported>>

\* collect_events: the loop test, then open() in _monitor_file, which raises
\* for a file that is missing or cannot be read
CollectEvents(r) ==
    /\ acPc[r].pc = "while"
    /\ acPc' = [acPc EXCEPT ![r] =
                    IF acStop THEN [@ EXCEPT !.pc = "done", !.saw = TRUE]
                    ELSE IF ~acFile[r].readable THEN [@ EXCEPT !.pc = "retry"]
                    ELSE [@ EXCEPT !.pc = "monitor", !.pos = 0]]
    /\ UNCHANGED <<acRanks, acStop, acFirstStep, acFile, acReported>>

\* collect_events: time.sleep(self._retry_timeout); continue
RetryWait(r) ==
    /\ acPc[r].pc = "retry"
    /\ acPc' = [acPc EXCEPT ![r].pc = "while"]
    /\ UNCHANGED <<acRanks, acStop, acFirstStep, acFile, acReported>>

\* a faulty variant of MonitorStops: the loop does not look at the flag
MonitorNeverStops == FALSE

\* _monitor_file: if self._stop_collector: break
MonitorStops == acStop

\* a faulty variant of Skipped: a line that does not parse ends the tailing
SkippedEndsTailing(thread) == [thread EXCEPT !.pc = "done"]

\* _monitor_file: the except clauses around parse_line, each with continue
Skipped(thread) == [thread EXCEPT !.pc = "monitor"]

\* _monitor_file: the loop's top, readline() and parse_line
MonitorFile(r) ==
    /\ acPc[r].pc = "monitor"
    /\ acPc' = [acPc EXCEPT ![r] =
                    IF MonitorStops THEN [@ EXCEPT !.pc = "while", !.saw = TRUE]
                    ELSE IF @.pos = Len(acFile[r].lines) THEN [@ EXCEPT !.pc = "poll"]
                    ELSE LET e == ParseLine(acFile[r].lines[@.pos + 1])
                             read == [@ EXCEPT !.pos = @ + 1]
                         IN IF e.exc # "none" THEN Skipped(read)
                            ELSE [read EXCEPT !.pc = "first", !.event = e]]
    /\ UNCHANGED <<acRanks, acStop, acFirstStep, acFile, acReported>>

\* _monitor_file: time.sleep(1); continue
PollWait(r) ==
    /\ acPc[r].pc = "poll"
    /\ acPc' = [acPc EXCEPT ![r].pc = "monitor"]
    /\ UNCHANGED <<acRanks, acStop, acFirstStep, acFile, acReported>>

\* _monitor_file: the test `self._first_step is None and ...`
FirstStepTest(r) ==
    /\ acPc[r].pc = "first"
    /\ acPc' = [acPc EXCEPT ![r].pc =
                    IF /\ acFirstStep = 0
                       /\ acPc[r].event.target = "TRAINER"
                       /\ acPc[r].event.name = "TRAIN_EVT_STEP"
                       /\ acPc[r].event.type = "BEGIN"
                    THEN "set" ELSE "report"]
    /\ UNCHANGED <<acRanks, acStop, acFirstStep, acFile, acReported>>

\* _monitor_file: self._first_step = step
FirstStepSet(r) ==
    /\ acPc[r].pc = "set"
    /\ acFirstStep' = acPc[r].event.step
    /\ acPc' = [acPc EXCEPT ![r].pc = "report"]
    /\ UNCHANGED <<acRanks, acStop, acFile, acReported>>

\* _monitor_file: self._first_step is not None and step != self._first_step
Reportable(event) == acFirstStep # 0 /\ event.step # acFirstStep

\* _monitor_file: the test before _report_event, and _report_event
ReportTest(r) ==
    /\ acPc[r].pc = "report"
    /\ acReported' = [acReported EXCEPT ![r] =
                        IF Reportable(acPc[r].event)
                        THEN Append(@, [line |-> acPc[r].pos, event |-> acPc[r].event])
                        ELSE @]
    /\ acPc' = [acPc EXCEPT ![r] = [@ EXCEPT !.pc = "monitor", !.event = NoEvent]]
    /\ UNCHANGED <<acRanks, acStop, acFirstStep, acFile>>

\* a step of the collector thread of rank r
ThreadStep(r) ==
    \/ CollectEvents(r)
    \/ RetryWait(r)
    \/ MonitorFile(r)
    \/ PollWait(r)
    \/ FirstStepTest(r)
    \/ FirstStepSet(r)
    \/ ReportTest(r)

\* ------------------------------------- Megatron load_checkpoint
\* A state dict is told by the keys that decide what load_checkpoint does:
\* "model", "iteration", "total_iters", the optimizer and scheduler entries,
\* "num_floating_point_operations_so_far" and the RNG entries, which are under
\* "rng_state", or at the top level (older checkpoints), or missing, or there
\* with an empty rng_tracker_states.
Absent == -1

EmptyDict ==
    [model |-> FALSE, iteration |-> Absent, total_iters |-> Absent,
     optimizer |-> FALSE, flops |-> Absent, rng |-> "missing"]

RngKinds == {"rng_state", "top level", "missing", "empty tracker"}

StateDicts ==
    [model : {TRUE}, iteration : {Absent, 3}, total_iters : {Absent, 2},
     optimizer : BOOLEAN, flops : {5}, rng : RngKinds]

\* what load_dir holds: a tracker file or none, a checkpoint file torch.load
\* can read or not, the release mark of the tracker file, and the state
NoTracker == [tracker |-> FALSE, loadable |-> FALSE, release |-> FALSE, state |-> EmptyDict]
Unloadable == [tracker |-> TRUE, loadable |-> FALSE, release |-> FALSE, state |-> EmptyDict]
Storages ==
    {NoTracker, Unloadable} \cup
    [tracker : {TRUE}, loadable : {TRUE}, release : BOOLEAN, state : StateDicts]

Args ==
    [finetune : BOOLEAN, no_load_optim : BOOLEAN, no_load_rng : BOOLEAN,
     exit_on_missing_checkpoint : BOOLEAN]

\* how a call ends: it returns a pair, or sys.exit() ends the process, or an
\* exception leaves the function
LoadReturn(iteration, flops) == [outcome |-> "return", value |-> <<iteration, flops>>]
SysExit == [outcome |-> "exit", value |-> <<>>]
LoadRaise(e) == [outcome |-> e, value |-> <<>>]
NoLoad == [outcome |-> "none", value |-> <<>>]

\* _load_checkpoint_from_memory, and `if not model_state_dict`
LoadedFromMemory(memory) == memory # EmptyDict

\* _load_base_checkpoint: None without a tracker file, sys.exit() when
\* torch.load raises
LoadBaseCheckpoint(storage) ==
    IF ~storage.tracker THEN [exit |-> FALSE, found |-> FALSE, release |-> FALSE, state |-> EmptyDict]
    ELSE IF ~storage.loadable THEN [exit |-> TRUE, found |-> FALSE, release |-> FALSE, state |-> EmptyDict]
    ELSE [exit |-> FALSE, found |-> TRUE, release |-> storage.release, state |-> storage.state]

\* a faulty variant of Iteration: a state without either key counts as 0
IterationOrZero(state) ==
    IF state.iteration # Absent THEN state.iteration
    ELSE IF state.total_iters # Absent THEN state.total_iters
    ELSE 0

\* load_checkpoint: model_state_dict["iteration"], else ["total_iters"], else
\* Absent, on which the caller exits
Iteration(state) ==
    IF state.iteration # Absent THEN state.iteration
    ELSE IF state.total_iters # Absent THEN state.total_iters
    ELSE Absent

\* load_checkpoint: the RNG entries that make the try block raise KeyError
RngKeyError(state) == state.rng \in {"missing", "empty tracker"}

\* load_checkpoint, after the state was loaded
LoadState(args, state, release) ==
    LET skip == args.finetune \/ release
        iteration == IF skip THEN 0 ELSE Iteration(state)
        flops == IF state.flops = Absent THEN 0 ELSE state.flops
    IN IF iteration = Absent THEN SysExit
       ELSE IF ~state.model THEN LoadRaise("KeyError")
       ELSE IF ~skip /\ ~args.no_load_optim /\ ~state.optimizer THEN SysExit
       ELSE IF ~skip /\ ~args.no_load_rng /\ RngKeyError(state) THEN SysExit
       ELSE LoadReturn(iteration, flops)

\* load_checkpoint
LoadCheckpoint(args, memory, storage) ==
    IF LoadedFromMemory(memory) THEN LoadState(args, memory, FALSE)
    ELSE LET base == LoadBaseCheckpoint(storage)
         IN IF base.exit THEN SysExit
            ELSE IF ~base.found
            THEN IF args.exit_on_missing_checkpoint THEN SysExit ELSE LoadReturn(0, 0)
            ELSE LoadState(args, base.state, base.release)

VARIABLES
    mgArgs,         \* get_args()
    mgMemory,       \* the model state dict the checkpoint engine has in memory
    mgStorage,      \* what load_dir holds
    mgLast          \* how the call of load_checkpoint ended

mgVars == <<mgArgs, mgMemory, mgStorage, mgLast>>

MGInit(args, memory, storage) ==
    /\ mgArgs = args
    /\ mgMemory = memory
    /\ mgStorage = storage
    /\ mgLast = NoLoad

MGIdle ==
    MGInit([finetune |-> FALSE, no_load_optim |-> FALSE, no_load_rng |-> FALSE,
            exit_on_missing_checkpoint |-> FALSE], EmptyDict, NoTracker)

CallLoadCheckpoint ==
    /\ mgLast = NoLoad
    /\ mgLast' = LoadCheckpoint(mgArgs, mgMemory, mgStorage)
    /\ UNCHANGED <<mgArgs, mgMemory, mgStorage>>

\* the subsystems outside the master: the log settings, the collector and
\* the checkpoint loader
restVars == <<lgVars, acVars, mgVars>>
RestIdle == LGInit(<<>>, <<>>) /\ ACInit(1) /\ MGIdle

\* -------------------------------------------------------- specifications
vars == <<tmVars, jrVars, jtVars, svVars, cpVars, obVars, restVars>>

\* steps of the TaskManager leave the rest alone, and so on
TMOnly == UNCHANGED <<jrVars, jtVars, svVars, cpVars, obVars, restVars>>
JobOnly == UNCHANGED <<tmVars, jtVars, svVars, cpVars, obVars, restVars>>
JobThreadsOnly == UNCHANGED <<tmVars, svVars, cpVars, obVars, restVars>>
ServicerOnly == UNCHANGED <<jrVars, jtVars, cpVars, obVars, restVars>>
CheckpointOnly == UNCHANGED <<jrVars, jtVars, svVars, obVars, restVars>>
CallsOnly == UNCHANGED <<jrVars, jtVars, svVars, cpVars, restVars>>

\* the optimizer of a run that only exercises the TaskManager
JRIdle == JRInit(Group(0, 0, 0), Group(0, 0, 0), [worker |-> TRUE, ps |-> TRUE])

\* the TaskManager of a run that only exercises the optimizer
TMIdle == TMInit

\* the servicer of a run that does not exercise it
SVIdle == SVInit(FALSE, FALSE)

Init == TMInit /\ JRIdle /\ JTInit /\ SVIdle /\ CPInit /\ OBInit /\ RestIdle

\* The timed specification: one dataset per run (TRAINING or EVALUATION), two
\* workers, the clock and the sweeper.
NextTimed ==
    \/ TMOnly /\ \E q \in NewDatasetRequests :
        datasets = <<>> /\ NewDataset(q[1], q[3], q[2])
    \/ TMOnly /\ \E nd \in Workers, n \in DatasetNames :
        GetDatasetTask(nd[1], nd[2], n)
    \/ TMOnly /\ \E n \in DatasetNames, i \in TaskIds, s \in BOOLEAN :
        ReportDatasetTask(n, i, s)
    \/ TMOnly /\ \E nd \in Workers : RecoverTasks(nd[1], nd[2])
    \/ TMOnly /\ \E nd \in Workers : ResetWorkerStartTaskTime(nd[2])
    \/ TMOnly /\ SetTaskTimeoutCallback
    \/ TMOnly /\ Tick
    \/ TMOnly /\ SweepCopy
    \/ TMOnly /\ SweepCheck

SpecTimed == Init /\ [][NextTimed]_vars

\* The queue specification: both datasets, three nodes, no clock.
NextQueues ==
    \/ TMOnly /\ \E q \in NewDatasetRequests : NewDataset(q[1], q[3], q[2])
    \/ TMOnly /\ \E nd \in Nodes, n \in DatasetNames :
        GetDatasetTask(nd[1], nd[2], n)
    \/ TMOnly /\ \E n \in DatasetNames, i \in TaskIds, s \in BOOLEAN :
        ReportDatasetTask(n, i, s)
    \/ TMOnly /\ \E nd \in Nodes : RecoverTasks(nd[1], nd[2])

SpecQueues == Init /\ [][NextQueues]_vars

\* The optimizer specification: the user's declared resources and the easydl
\* flags are drawn at construction, the optimizer's answers at each call.
InitJob ==
    /\ TMIdle
    /\ JTInit
    /\ SVIdle
    /\ CPInit
    /\ OBInit
    /\ RestIdle
    /\ \E w \in DeclaredWorkers, p \in DeclaredPs, fw \in BOOLEAN, fp \in BOOLEAN :
        JRInit(w, p, [worker |-> fw, ps |-> fp])

WorkerAnswers == {a \in OptimizerPlans : a.ps = NoGroup}
PsAnswers == {a \in OptimizerPlans : a.worker = NoGroup}
NodeMemories == {1, MIN_VALID_MEMORY}

NextJob ==
    \/ JobOnly /\ \E a \in OptimizerPlans : InitJobResource(a)
    \/ JobOnly /\ \E a \in OptimizerPlans, b \in WorkerAnswers :
        /\ (jobStage = "RUNNING" /\ PlanEmpty(a)) \/ b = EmptyPlan
        /\ GetJobResourcePlan(a, b)
    \/ JobOnly /\ \E m \in NodeMemories, a \in WorkerAnswers :
        AdjustOomWorkerResource(m, a)
    \/ JobOnly /\ \E m \in NodeMemories, t \in BOOLEAN, a \in PsAnswers :
        AdjustOomPsResource(m, t, a)

SpecJob == InitJob /\ [][NextJob]_vars

\* The optimizer under two threads that call get_job_resource_plan, after one
\* init_job_resource call.
ThreadAnswers ==
    {EmptyPlan,
     [worker |-> Group(MaxCount, MaxCpu, MaxMem), ps |-> NoGroup],
     [worker |-> NoGroup, ps |-> Group(MaxCount, MaxCpu, MaxMem)]}

NextJobThreads ==
    \/ JobThreadsOnly /\ UNCHANGED jtVars /\ jobStage = "CREATE" /\
        \E a \in ThreadAnswers : InitJobResource(a)
    \/ JobThreadsOnly /\ \E t \in JobThreads : PlanEnter(t)
    \/ JobThreadsOnly /\ \E t \in JobThreads, a \in ThreadAnswers : PlanRequest(t, a)
    \/ JobThreadsOnly /\ \E t \in JobThreads : PlanSetStage(t)
    \/ JobThreadsOnly /\ \E t \in JobThreads : PlanSampleTest(t)
    \/ JobThreadsOnly /\ \E t \in JobThreads, a \in ThreadAnswers \cap WorkerAnswers :
        PlanWorkerRequest(t, a)
    \/ JobThreadsOnly /\ \E t \in JobThreads : PlanReturn(t)

SpecJobThreads == Init /\ [][NextJobThreads]_vars

\* get_task over one dataset, with or without a rendezvous server
InitGetTask ==
    /\ TMInit /\ JRIdle /\ JTInit /\ CPInit /\ OBInit /\ RestIdle
    /\ \E r \in BOOLEAN : SVInit(r, FALSE)

RunningWorkerCounts == {1, 2}

NextGetTask ==
    \/ ServicerOnly /\ UNCHANGED svVars /\ \E q \in NewDatasetRequests :
        datasets = <<>> /\ NewDataset(q[1], q[3], q[2])
    \/ ServicerOnly /\ \E nd \in Workers, n \in DatasetNames, k \in RunningWorkerCounts :
        GetTask(nd[1], nd[2], n, k)
    \/ ServicerOnly /\ UNCHANGED svVars /\
        \E n \in DatasetNames, i \in TaskIds, ok \in BOOLEAN : ReportDatasetTask(n, i, ok)

SpecGetTask == InitGetTask /\ [][NextGetTask]_vars

\* the handlers that can start autoscaling, on two threads of the gRPC pool
InitAutoScale ==
    /\ TMInit /\ JRIdle /\ JTInit /\ CPInit /\ OBInit /\ RestIdle
    /\ \E c \in BOOLEAN : SVInit(FALSE, c)

\* one dataset of a single shard, of a type that reaches the sample-count
\* test from report_task_result or of one that does not
AutoScaleDatasets == {<<"train", "PREDICTION">>, <<"eval", "EVALUATION">>}

NextAutoScale ==
    \/ ServicerOnly /\ UNCHANGED svVars /\ \E q \in AutoScaleDatasets :
        datasets = <<>> /\ NewDataset(q[1], ShardSize, q[2])
    \/ ServicerOnly /\ UNCHANGED svVars /\ Tick
    \/ ServicerOnly /\ \E n \in DatasetNames : GetTask("worker", 0, n, 1)
    \/ ServicerOnly /\ \E h \in Handlers, n \in DatasetNames, i \in TaskIds, ok \in BOOLEAN :
        ReportTaskResult(h, n, i, ok)
    \/ ServicerOnly /\ \E h \in Handlers : NonTrainingTrigger(h)
    \/ ServicerOnly /\ \E h \in Handlers : StartAutoScale(h)
    \/ ServicerOnly /\ \E h \in Handlers : PredictionStats(h)
    \/ ServicerOnly /\ \E h \in Handlers, g \in GlobalSteps : ReportGlobalStep(h, g)
    \/ ServicerOnly /\ \E h \in Handlers : CheckStartAutoScaleWorker(h)

SpecAutoScale == InitAutoScale /\ [][NextAutoScale]_vars

\* The checkpoint specification: one dataset per run, one worker, no clock,
\* and a client that takes checkpoints and sends the one it holds, or an
\* empty document, back. Every restore can open one more epoch.
CheckpointIds == 0..((MaxRestores + 1) * NumEpochs * CeilDiv(DatasetSize, ShardSize) - 1)

NextCheckpoint ==
    \/ CheckpointOnly /\ UNCHANGED cpVars /\ \E q \in NewDatasetRequests :
        datasets = <<>> /\ NewDataset(q[1], q[3], q[2])
    \/ CheckpointOnly /\ \E n \in DatasetNames : HandOut("worker", 0, n)
    \/ CheckpointOnly /\ UNCHANGED cpVars /\
        \E n \in DatasetNames, i \in CheckpointIds, s \in BOOLEAN :
            ReportDatasetTask(n, i, s)
    \/ CheckpointOnly /\ UNCHANGED cpVars /\ RecoverTasks("worker", 0)
    \/ CheckpointOnly /\ \E n \in DatasetNames : GetDatasetCheckpoint(n)
    \/ CheckpointOnly /\ \E j \in SentDocuments : ReportShardCheckpoint(j)

SpecCheckpoint == Init /\ [][NextCheckpoint]_vars

\* The progress specification: every operation that touches a dataset's
\* queues (get, report, recover, the sweeper's timeout, restore) with the
\* clock, over one dataset of a single shard per epoch.
ProgressDatasets == {<<"train", "TRAINING">>, <<"eval", "EVALUATION">>}
ProgressIds == 0..((MaxRestores + 1) * NumEpochs - 1)

NextProgress ==
    \/ CheckpointOnly /\ UNCHANGED cpVars /\ \E q \in ProgressDatasets :
        datasets = <<>> /\ NewDataset(q[1], ShardSize, q[2])
    \/ CheckpointOnly /\ \E n \in DatasetNames : HandOut("worker", 0, n)
    \/ CheckpointOnly /\ UNCHANGED cpVars /\
        \E n \in DatasetNames, i \in ProgressIds, s \in BOOLEAN :
            ReportDatasetTask(n, i, s)
    \/ CheckpointOnly /\ UNCHANGED cpVars /\ RecoverTasks("worker", 0)
    \/ CheckpointOnly /\ UNCHANGED cpVars /\ Tick
    \/ CheckpointOnly /\ UNCHANGED cpVars /\ SweepCopy
    \/ CheckpointOnly /\ UNCHANGED cpVars /\ SweepCheck
    \/ CheckpointOnly /\ \E n \in DatasetNames : GetDatasetCheckpoint(n)
    \/ CheckpointOnly /\ \E j \in {ckpt.json, NoJson} : ReportShardCheckpoint(j)

SpecProgress == Init /\ [][NextProgress]_vars

\* The call specification: both datasets, of one shard, of no record or of a
\* negative size; one worker; every call is seen with its result.
CallDatasets == {<<"train", "TRAINING">>, <<"eval", "EVALUATION">>}
CallSizes == {ShardSize, 0, -1}
CallIds == 0..NumEpochs

NextCalls ==
    \/ CallsOnly /\ \E q \in CallDatasets, z \in CallSizes, ty \in {"TRAINING", "EVALUATION"} :
        (~Registered(q[1]) => ty = q[2]) /\ CallNewDataset(q[1], z, ty)
    \/ CallsOnly /\ \E n \in DatasetNames : CallGetDatasetTask("worker", 0, n)
    \/ CallsOnly /\ \E n \in DatasetNames, i \in CallIds, s \in BOOLEAN :
        CallReportDatasetTask(n, i, s)
    \/ CallsOnly /\ CallFinished

SpecCalls == Init /\ [][NextCalls]_vars

\* The hang specification: both datasets, of one shard; one worker; the clock.
NextHang ==
    \/ CallsOnly /\ \E q \in CallDatasets : CallNewDataset(q[1], ShardSize, q[2])
    \/ CallsOnly /\ \E n \in DatasetNames : CallGetDatasetTask("worker", 0, n)
    \/ CallsOnly /\ \E n \in DatasetNames : CallReportDatasetTask(n, 0, TRUE)
    \/ CallsOnly /\ UNCHANGED obVars /\ Tick
    \/ CallsOnly /\ CallTaskHanged

SpecHang == Init /\ [][NextHang]_vars

\* The log specification: the process starts with any two environment
\* values and calls the two functions in any order.
MasterIdle == TMInit /\ JRIdle /\ JTInit /\ SVIdle /\ CPInit /\ OBInit
MasterOnly == UNCHANGED <<tmVars, jrVars, jtVars, svVars, cpVars, obVars>>

InitLog ==
    /\ MasterIdle
    /\ ACInit(1)
    /\ MGIdle
    /\ \E m \in EnvValues, b \in EnvValues : LGInit(m, b)

NextLog ==
    \/ MasterOnly /\ UNCHANGED <<acVars, mgVars>> /\ CallGetFileHandlerMaxBytes
    \/ MasterOnly /\ UNCHANGED <<acVars, mgVars>> /\ CallGetFileHandlerBackupCount

SpecLog == InitLog /\ [][NextLog]_vars

\* The collector specifications: a collector of one rank whose file gets any
\* lines, and a collector of two ranks whose files get step BEGIN lines.
CollectorOnly == MasterOnly /\ UNCHANGED <<lgVars, mgVars>>

InitCollector == MasterIdle /\ LGInit(<<>>, <<>>) /\ ACInit(1) /\ MGIdle
InitCollectorRanks == MasterIdle /\ LGInit(<<>>, <<>>) /\ ACInit(2) /\ MGIdle

NextCollector ==
    \/ CollectorOnly /\ StartCollectors
    \/ CollectorOnly /\ StopCollectors
    \/ CollectorOnly /\ \E r \in Ranks, line \in LineSet : AppendLine(r, line)
    \/ CollectorOnly /\ \E r \in Ranks : ThreadStep(r)

SpecCollector == InitCollector /\ [][NextCollector]_vars
SpecCollectorRanks == InitCollectorRanks /\ [][NextCollector]_vars

\* every thread that can take a step takes one in the end: the scheduler is
\* fair and both sleeps end
CollectorFairness == \A r \in Ranks : WF_vars(CollectorOnly /\ ThreadStep(r))
SpecCollectorFair == SpecCollectorRanks /\ CollectorFairness

\* The loader specification: one call of load_checkpoint for every choice of
\* arguments, state in memory and content of load_dir.
InitLoad ==
    /\ MasterIdle
    /\ LGInit(<<>>, <<>>)
    /\ ACInit(1)
    /\ \E args \in Args, memory \in {EmptyDict} \cup StateDicts, storage \in Storages :
            MGInit(args, memory, storage)

NextLoad == MasterOnly /\ UNCHANGED <<lgVars, acVars>> /\ CallLoadCheckpoint

SpecLoad == InitLoad /\ [][NextLoad]_vars

\* ------------------------------------------------------------- claims
TodoIds(d) == {d.todo[i].task_id : i \in 1..Len(d.todo)}
DoingIds(d) == {d.doing[i].task.task_id : i \in 1..Len(d.doing)}

\* a step of SweepCheck: the only action that changes a non-empty swSnap
SweepCheckStep == swSnap # <<>> /\ swSnap' # swSnap

\* a step that put a new record in last
Recorded(op) == last' # last /\ last'.op = op

TaskPartition(d) ==
    /\ TodoIds(d) \cup DoingIds(d) \cup d.done = 0..(d.task_id - 1)
    /\ TodoIds(d) \cap DoingIds(d) = {}
    /\ TodoIds(d) \cap d.done = {}
    /\ DoingIds(d) \cap d.done = {}
    /\ Cardinality(TodoIds(d)) = Len(d.todo)
    /\ Cardinality(DoingIds(d)) = Len(d.doing)

TaskMoves(d, e) ==
    /\ \A id \in DoingIds(d) :
        \/ id \in DoingIds(e)
        \/ id \in e.done /\ last'.op = "report" /\ last'.success /\ last'.ok
        \/ /\ id \in TodoIds(e)
           /\ \/ last'.op = "report" /\ ~last'.success
              \/ last'.op = "sweep"
              \/ last'.op = "recover"
    /\ \A id \in d.done : id \in e.done
    /\ \A id \in TodoIds(d) :
        id \in TodoIds(e) \/ (id \in DoingIds(e) /\ last'.op = "get")

\* C1: in every reachable state each task id created so far is in exactly one
\* of todo, doing and done; a task leaves todo only to doing by a get, leaves
\* doing only to done by a successful report or back to todo by a failed
\* report, a timeout or a recovery, and never leaves done.
C1_TaskPartition ==
    /\ [](\A n \in DatasetNames : TaskPartition(dm[n]))
    /\ [][\A n \in DatasetNames : TaskMoves(dm[n], dm'[n])]_vars

\* C1 witness: the sweeper requeued a dispatched task while another is done.
C1_Witness ==
    /\ last.op = "sweep" /\ last.writes
    /\ last.task.task_id \in TodoIds(dm[last.ds])
    /\ dm[last.ds].done # {}

\* C2: after report_dataset_task(task, success=False) for a task in doing the
\* task, with its shard, is the head of todo, and a get_dataset_task on a
\* dataset whose todo is not empty returns the head of todo: the next get on
\* that dataset returns the failed task before any task never dispatched.
C2_FailedTaskRetriedFirst ==
    /\ []((last.op = "report" /\ ~last.success) =>
            /\ dm[last.ds].todo # <<>>
            /\ Head(dm[last.ds].todo) = last.task)
    /\ [][\A n \in DatasetNames :
            (Recorded("get") /\ last'.ds = n /\ dm[n].todo # <<>>) =>
                /\ last'.task = Head(dm[n].todo)
                /\ last'.task.task_id \in DoingIds(dm'[n])]_vars

\* C2 witness: a failed task is the head of todo, a never dispatched task behind it.
C2_Witness ==
    /\ last.op = "report" /\ ~last.success
    /\ Len(dm[last.ds].todo) = 2
    /\ dm[last.ds].todo[1].task_id = 0
    /\ dm[last.ds].todo[2].task_id = 1
    /\ dm[last.ds].done = {}

Assigned(x, node_type, node_id) == x.node_type = node_type /\ x.node_id = node_id

\* C3: after recover_tasks(node_type, node_id), in every dataset no doing-task
\* is assigned to that node, every task that was assigned to it is in todo, and
\* the doing-tasks of the other nodes are left in doing, in their order.
C3_RecoverTasks ==
    [][Recorded("recover") =>
        \A n \in DatasetNames :
            LET mine(x) == Assigned(x, last'.node_type, last'.node_id)
                other(x) == ~Assigned(x, last'.node_type, last'.node_id)
            IN /\ dm'[n].doing = SelectSeq(dm[n].doing, other)
               /\ \A i \in 1..Len(dm[n].doing) :
                    mine(dm[n].doing[i]) =>
                        dm[n].doing[i].task.task_id \in TodoIds(dm'[n])
               /\ dm'[n].done = dm[n].done]_vars

\* C3 witness: both tasks of one dataset went back to todo, another node's task
\* is still in doing.
C3_Witness ==
    /\ last.op = "recover"
    /\ \E n \in DatasetNames :
        /\ Len(dm[n].todo) = 2
        /\ dm[n].todo[1].task_id = 1
        /\ dm[n].todo[2].task_id = 0
    /\ \E n \in DatasetNames : dm[n].doing # <<>>
\* the doing-task of a dataset for a task id, NoDoing when it is not in doing
DoingOf(d, id) == IF InDoing(d.doing, id) THEN d.doing[DoingIndex(d.doing, id)] ELSE NoDoing

\* the sweeper put the task of its copy back at the head of todo
SweepRequeued(n, e) ==
    /\ InDoing(dm[n].doing, e.task.task_id)
    /\ ~InDoing(dm'[n].doing, e.task.task_id)
    /\ dm'[n].todo = <<e.task>> \o dm[n].todo

\* C4 as stated: an EVALUATION doing-task the sweeper looks at more than
\* task_process_timeout seconds after its dispatch is requeued, whatever its
\* worker called in the meantime.
C4_TimeoutSinceDispatch ==
    [][SweepCheckStep =>
        LET e == Head(swSnap)
            n == datasets[swPos]
            cur == DoingOf(dm[n], e.task.task_id)
        IN (/\ e.task.task_type = "EVALUATION"
            /\ cur # NoDoing
            /\ cur.node_id = e.node_id /\ cur.node_type = e.node_type
            /\ swCur - cur.start_time > TaskProcessTimeout)
           => SweepRequeued(n, e)]_vars

\* C4 amended: an EVALUATION doing-task the sweeper looks at is requeued exactly
\* when more than task_process_timeout seconds have passed since the recorded
\* start time of the node id that held it (worker_start_task_time[node_id],
\* which every get_dataset_task of that node id, every successful report of one
\* of its tasks and every reset_worker_start_task_time set to the current time);
\* that start time is never earlier than the dispatch of any task the node holds.
C4_TimeoutSinceWorkerStart ==
    /\ [](\A n \in DatasetNames : \A i \in 1..Len(dm[n].doing) :
            wst[dm[n].doing[i].node_id] >= dm[n].doing[i].start_time)
    /\ [][SweepCheckStep =>
            LET e == Head(swSnap)
                n == datasets[swPos]
            IN (e.task.task_type = "EVALUATION" /\ InDoing(dm[n].doing, e.task.task_id))
               => (SweepRequeued(n, e) <=>
                    (wst[e.node_id] # -1 /\ swCur - wst[e.node_id] > TaskProcessTimeout))]_vars

\* C4 witness: the sweeper requeued an EVALUATION task whose worker had been
\* silent for more than the timeout.
C4_Witness ==
    /\ last.op = "sweep" /\ last.writes
    /\ last.task.task_type = "EVALUATION"
    /\ dm[last.ds].todo # <<>> /\ Head(dm[last.ds].todo) = last.task
    /\ now - wst[last.node_id] > TaskProcessTimeout

\* C5: when the sweeper times out an EVALUATION doing-task the task goes back
\* to the head of todo and every registered callback is called once, in order,
\* with the node id the sweeper's copy of doing holds for the task; a doing-task
\* that is not EVALUATION is never requeued by the sweeper and causes no call;
\* no other step calls a timeout callback.
C5_TimeoutCallbacks ==
    /\ [][SweepCheckStep =>
            LET e == Head(swSnap)
                n == datasets[swPos]
            IN /\ e.task.task_type # "EVALUATION" => (dm' = dm /\ last' = last)
               /\ dm' # dm =>
                    /\ e.task.task_type = "EVALUATION"
                    /\ SweepRequeued(n, e)
                    /\ Recorded("sweep")
                    /\ Len(last'.calls) = Len(callbacks)
                    /\ \A i \in 1..Len(callbacks) :
                        last'.calls[i] = <<callbacks[i], e.node_id>>]_vars
    /\ [](last.calls # <<>> => (last.op = "sweep" /\ last.task.task_type = "EVALUATION"))

\* C5 witness: a timed out task is back in todo and two callbacks were called.
C5_Witness ==
    /\ last.op = "sweep" /\ last.writes
    /\ Head(dm[last.ds].todo) = last.task
    /\ Len(callbacks) = 2
    /\ last.calls = <<<<1, last.node_id>>, <<2, last.node_id>>>>

\* C6 as stated: every step that writes _datasets, _worker_start_task_time or a
\* dataset's queues does so holding TaskManager._lock, and timeout callbacks
\* are called while the lock is not held.
C6_WritesUnderLock ==
    /\ last.writes => last.locked
    /\ last.calls # <<>> => ~last.locked
\* a step of the JobResourceOptimizer call `op` (every call writes jlast)
JobCall(op) == jlast'.op = op

\* C7: after each JobResourceOptimizer call that applies an optimizer plan to
\* the worker group, a declared worker count (> 0) is the live worker count, a
\* declared worker memory (>= MIN_VALID_MEMORY) is the live worker memory and a
\* declared worker cpu (>= MIN_VALID_CPU) is the live worker cpu.
C7_UserOverride ==
    "worker" \in jlast.applied =>
        /\ originalWorkerResource.count > 0 =>
            workerResource.count = originalWorkerResource.count
        /\ originalWorkerResource.memory >= MIN_VALID_MEMORY =>
            workerResource.memory = originalWorkerResource.memory
        /\ originalWorkerResource.cpu >= MIN_VALID_CPU =>
            workerResource.cpu = originalWorkerResource.cpu

\* C8: a get_job_resource_plan call made in stage RUNNING lowers neither the
\* live worker memory nor the live PS memory, whatever plan the optimizer
\* proposes.
C8_MemoryMonotonic ==
    [][JobCall("get_job_resource_plan") /\ jobStage = "RUNNING" =>
        /\ workerResource'.memory >= workerResource.memory
        /\ psResource'.memory >= psResource.memory]_vars

\* C9 as stated: no init_job_resource or get_job_resource_plan call moves the
\* job stage to an earlier stage of CREATE < WORKER_INITIAL < PS_INITIAL < RUNNING.
C9_StageMonotonic ==
    [][JobCall("init_job_resource") \/ JobCall("get_job_resource_plan") =>
        StageRank(jobStage') >= StageRank(jobStage)]_vars

\* C9, amended: get_job_resource_plan moves the stage one step forward from
\* WORKER_INITIAL and from PS_INITIAL and keeps it otherwise; init_job_resource
\* sets it to WORKER_INITIAL whatever it was; so the stage goes back only by an
\* init_job_resource call made in PS_INITIAL or RUNNING.
C9_StageMonotonicButReinit ==
    [][/\ JobCall("get_job_resource_plan") =>
            /\ StageRank(jobStage') >= StageRank(jobStage)
            /\ StageRank(jobStage') <= StageRank(jobStage) + 1
            /\ jobStage \in {"WORKER_INITIAL", "PS_INITIAL"} => jobStage' # jobStage
       /\ JobCall("init_job_resource") => jobStage' = "WORKER_INITIAL"
       /\ StageRank(jobStage') < StageRank(jobStage) =>
            /\ JobCall("init_job_resource")
            /\ jobStage \in {"PS_INITIAL", "RUNNING"}]_vars

\* C9 witness: a get_job_resource_plan call made in RUNNING has left the stage in RUNNING.
C9_Witness ==
    /\ jlast.op = "get_job_resource_plan"
    /\ jlast.stage = "RUNNING"
    /\ jobStage = "RUNNING"

\* C10: in each of the stages WORKER_INITIAL, PS_INITIAL and RUNNING, a
\* get_job_resource_plan call to which the optimizer answers only empty plans
\* returns None, raises nothing and leaves the live worker and PS resources
\* unchanged.
C10_NoPlanReturnsNone ==
    [][/\ JobCall("get_job_resource_plan")
       /\ jobStage \in {"WORKER_INITIAL", "PS_INITIAL", "RUNNING"}
       /\ jlast'.no_plan
       => /\ jlast'.ret = "none"
          /\ UNCHANGED <<workerResource, psResource>>]_vars

\* C13: adjust_oom_worker_resource(node) leaves node.config_resource.memory at
\* least what it was before the call, for every node memory, job stage, easydl
\* setting and optimizer answer.
C13_OomNodeMemoryNotLowered ==
    jlast.op = "adjust_oom_worker_resource" => jlast.node_after >= jlast.node_before

\* C13 witness: an OOM worker call in RUNNING raised the node's memory.
C13_Witness ==
    /\ jlast.op = "adjust_oom_worker_resource"
    /\ jlast.stage = "RUNNING"
    /\ jlast.node_after > jlast.node_before

C15_OomRaisesLiveMemory ==
    [][/\ JobCall("adjust_oom_worker_resource") =>
            workerResource'.memory >= workerResource.memory
       /\ JobCall("adjust_oom_ps_resource") =>
            psResource'.memory >= psResource.memory]_vars

\* C12: under concurrent get_job_resource_plan calls the WORKER_INITIAL plan
\* (phase INITIAL), the PS_INITIAL plan and the SAMPLE-phase worker plan are
\* each requested from the optimizer at most once.
C12_PlansRequestedOnce ==
    \A ph \in CountedPhases : optRequests[ph] <= 1

\* a step in which the servicer answered a call of op
ServicerCall(op) == slast'.tick # slast.tick /\ slast'.op = op

\* todo holds, in creation order, exactly the tasks never dispatched so far
InCreationOrder(d) ==
    LET k == Len(d.doing) + Cardinality(d.done)
    IN /\ Len(d.todo) = d.task_id - k
       /\ \A i \in 1..Len(d.todo) : d.todo[i].task_id = k + i - 1

\* the k-th shard (from 0) of a dataset of DatasetSize records
NextShard(k) == <<k * ShardSize, Min((k + 1) * ShardSize, DatasetSize)>>

\* nothing is left to dispatch: the splitter is exhausted and todo is empty
NothingToDispatch(d) == d.todo = <<>> /\ EpochFinished(d)

C11_AutoScaleAtMostOnce == autoScaleCalls <= 1

\* a step in which a client sent back the checkpoint it holds
CheckpointSentBack ==
    /\ ckpt'.restores # ckpt.restores
    /\ ckpt.json # NoJson
    /\ ckpt'.sent = ckpt.json

\* C18: at every observation point and for each dataset, the task ids handed
\* out by get_dataset_task are exactly 0 .. k-1 for some k, and ids that were
\* never handed out before are handed out in increasing order (only a failed
\* task, requeued at the head, is handed out again before them).
C18_ContiguousPrefix ==
    /\ [](\A n \in DatasetNames :
            handedOut[n] = 0..(Cardinality(handedOut[n]) - 1))
    /\ [][\A n \in DatasetNames :
            \A t \in handedOut'[n] \ handedOut[n] :
                \A u \in handedOut[n] : u < t]_vars

\* C19: a dataset's completed_step never decreases over get, report, recover,
\* timeout and restore steps, and it increases only in a step that reports
\* successful a TRAINING task that is in doing.
C19_CompletedStepMonotonic ==
    [][\A n \in DatasetNames :
        /\ dm'[n].completed_step >= dm[n].completed_step
        /\ dm'[n].completed_step > dm[n].completed_step
            => /\ last'.op = "report" /\ last'.ds = n
               /\ last'.success /\ last'.ok
               /\ last'.task.task_type = "TRAINING"
               /\ InDoing(dm[n].doing, last'.task.task_id)]_vars

\* a checkpoint was sent back and restored, and a successful report of a
\* TRAINING task after it has raised completed_step
C19_Witness ==
    /\ ckpt.restores > 0 /\ ckpt.sent # NoJson
    /\ last.op = "report" /\ last.success /\ last.ok
    /\ last.task.task_type = "TRAINING"
    /\ dm[last.ds].completed_step > 0

TMCalled(op) == tmCall'.tick # tmCall.tick /\ tmCall'.op = op

\* the queues, the counters and the registration of every dataset, and the
\* start times of the workers
DatasetState == <<datasets, dm, wst, endTime>>

\* C22: once a name is registered, a later new_dataset call with that name
\* (any size, any task type) leaves the registered dataset and its todo,
\* doing, done and epoch unchanged.
C22_RegisteredNameIgnored ==
    [][(TMCalled("new_dataset") /\ Registered(tmCall'.ds))
        => DatasetState' = DatasetState]_vars

\* new_dataset was called with another size for a dataset that has a task
\* in doing
C22_Witness ==
    /\ tmCall.op = "new_dataset" /\ Registered(tmCall.ds)
    /\ tmCall.size >= 0 /\ tmCall.size # dm[tmCall.ds].size
    /\ dm[tmCall.ds].doing # <<>>

\* C23: new_dataset with dataset_size <= 0 (zero included) registers no
\* dataset: the name stays absent and is_dataset_initialized() is unchanged.
C23_NonPositiveSizeRejected ==
    [][(/\ TMCalled("new_dataset")
        /\ tmCall'.size <= 0
        /\ ~Registered(tmCall'.ds))
        => /\ datasets' = datasets
           /\ dm' = dm
           /\ IsDatasetInitialized' = IsDatasetInitialized]_vars

\* C24: report_dataset_task, success or failure, for a task id that is
\* already in done returns (None, None) and changes nothing.
C24_DoneTaskReportIgnored ==
    [][(/\ TMCalled("report")
        /\ Registered(tmCall'.ds)
        /\ tmCall'.task_id \in dm[tmCall'.ds].done)
        => /\ tmCall'.ret = "none"
           /\ DatasetState' = DatasetState]_vars

\* a task that is done was reported a second time, as failed
C24_Witness ==
    /\ tmCall.op = "report" /\ Registered(tmCall.ds)
    /\ tmCall.task_id \in dm[tmCall.ds].done
    /\ ~tmCall.success /\ tmCall.ret = "none"

\* C25: a report naming a dataset that is not registered, or a task id that
\* was never dispatched for a registered dataset, is raised as a value error
\* and changes no state.
C25_ProtocolViolationRaised ==
    [][(/\ TMCalled("report")
        /\ \/ ~Registered(tmCall'.ds)
           \/ tmCall'.task_id >= dm[tmCall'.ds].task_id)
        => /\ tmCall'.ret = "ValueError"
           /\ DatasetState' = DatasetState]_vars

\* C26: finished() returns true if and only if at least one dataset is
\* registered and every registered dataset has its splitter exhausted and
\* both todo and doing empty.
C26_FinishedIff ==
    [][TMCalled("finished")
        => ((tmCall'.ret = "true")
            <=> /\ \E n \in DatasetNames : Registered(n)
                /\ \A n \in DatasetNames : Registered(n)
                    => /\ dm[n].epoch >= NumEpochs
                       /\ dm[n].todo = <<>>
                       /\ dm[n].doing = <<>>)]_vars

\* finished() returned true with both datasets registered, each with its
\* task done
C26_Witness ==
    /\ tmCall.op = "finished" /\ tmCall.ret = "true"
    /\ Len(datasets) = 2
    /\ \A n \in DatasetNames : dm[n].doing = <<>> /\ dm[n].todo = <<>>
    /\ \E n \in DatasetNames : dm[n].done # {}

\* every registered dataset has finished a task and has been idle for more
\* than the timeout since
AllIdlePastTimeout ==
    \A n \in DatasetNames : Registered(n)
        => endTime[n] > 0 /\ TimeNow - endTime[n] > TaskProcessTimeout

\* C27 as stated: task_hanged() returns true exactly when every registered
\* dataset has a non-zero latest_task_end_time and now - latest_task_end_time
\* > task_process_timeout, for every set of registered datasets.
C27_HangedIffAllIdle ==
    [][TMCalled("task_hanged")
        => ((tmCall'.ret = "true") <=> AllIdlePastTimeout)]_vars

\* C27: task_hanged() returns true exactly when at least one dataset is
\* registered and every registered dataset has a non-zero
\* latest_task_end_time with now - latest_task_end_time > task_process_timeout.
C27_HangedIffSomeAndAllIdle ==
    [][TMCalled("task_hanged")
        => ((tmCall'.ret = "true")
            <=> (datasets # <<>> /\ AllIdlePastTimeout))]_vars

\* task_hanged() returned true with both datasets registered
C27_Witness ==
    /\ tmCall.op = "task_hanged" /\ tmCall.ret = "true"
    /\ Len(datasets) = 2

\* a step in which a client sent a document that cannot be parsed or that
\* names a dataset that is not registered
BadDocumentSent ==
    /\ ckpt'.restores # ckpt.restores
    /\ \/ ~WellFormed(ckpt'.sent)
       \/ ~Registered(ckpt'.sent[1])

\* C21: restore_dataset_from_checkpoint given a document that cannot be
\* parsed, or one that names a dataset that is not registered, returns False
\* and leaves every dataset's todo, doing, done and epoch unchanged.
C21_BadCheckpointRejected ==
    [][BadDocumentSent
        => /\ last'.op = "restore" /\ ~last'.ok
           /\ dm' = dm
           /\ datasets' = datasets]_vars

\* a well-formed document for a dataset that is not registered was sent while
\* the registered dataset had a task in doing, and False came back
C21_Witness ==
    /\ last.op = "restore" /\ ~last.ok
    /\ WellFormed(ckpt.sent) /\ ~Registered(ckpt.sent[1])
    /\ datasets # <<>>
    /\ dm[datasets[1]].doing # <<>>

\* the user declared a worker count, a worker cpu and a worker memory that
\* all count as set
WorkerFullyDeclared ==
    /\ originalWorkerResource.count > 0
    /\ originalWorkerResource.cpu >= MIN_VALID_CPU
    /\ originalWorkerResource.memory >= MIN_VALID_MEMORY

\* a get_job_resource_plan step that applies a worker group proposing more
\* workers and more memory than the user declared
OverridingProposal ==
    /\ JobCall("get_job_resource_plan")
    /\ "worker" \in jlast'.applied
    /\ jlast'.answer.worker.count > originalWorkerResource.count
    /\ jlast'.answer.worker.memory > originalWorkerResource.memory

\* C28: when the user declared worker count, cpu and memory and the optimizer
\* proposes more workers and more memory, after get_job_resource_plan the live
\* worker resource has the declared count, the declared cpu and the proposed
\* memory.
C28_ProposedMemoryAccepted ==
    [][OverridingProposal /\ WorkerFullyDeclared =>
        workerResource' = Group(originalWorkerResource.count,
                                originalWorkerResource.cpu,
                                jlast'.answer.worker.memory)]_vars

\* C28, amended: in that case the live worker resource is the declared one,
\* memory included; the proposed memory is accepted only when the declared
\* memory is below MIN_VALID_MEMORY.
C28_DeclaredMemoryPinned ==
    [][OverridingProposal =>
        /\ WorkerFullyDeclared => workerResource' = originalWorkerResource
        /\ originalWorkerResource.memory < MIN_VALID_MEMORY =>
            workerResource'.memory = jlast'.answer.worker.memory]_vars

\* C28 witness: get_job_resource_plan applied a worker proposal with more
\* workers and more memory than the fully declared worker resource.
C28_Witness ==
    /\ jlast.op = "get_job_resource_plan"
    /\ "worker" \in jlast.applied
    /\ WorkerFullyDeclared
    /\ jlast.answer.worker.count > originalWorkerResource.count
    /\ jlast.answer.worker.memory > originalWorkerResource.memory
    /\ workerResource = originalWorkerResource

\* the last JobResourceOptimizer call applied a PS group the optimizer
\* proposed: init_job_resource or get_job_resource_plan with a PS group, or
\* adjust_oom_ps_resource on the branch that verifies the group
PsGroupApplied ==
    \/ /\ jlast.op \in {"init_job_resource", "get_job_resource_plan"}
       /\ "ps" \in jlast.applied
    \/ /\ jlast.op = "adjust_oom_ps_resource"
       /\ jlast.ret = "plan"

\* C29: after init_job_resource, get_job_resource_plan or
\* adjust_oom_ps_resource has applied a PS group the optimizer proposed, the
\* live PS count is at most MAX_PS_NUM, and so is the PS count of the plan
\* returned to the caller.
C29_PsCountClamped ==
    PsGroupApplied =>
        /\ psResource.count <= MAX_PS_NUM
        /\ jlast.plan.ps # NoGroup => jlast.plan.ps.count <= MAX_PS_NUM

\* C29, the calls that do clamp: get_job_resource_plan and the verifying
\* branch of adjust_oom_ps_resource.
C29_VerifiedPsCountClamped ==
    PsGroupApplied /\ jlast.op # "init_job_resource" =>
        /\ psResource.count <= MAX_PS_NUM
        /\ jlast.plan.ps # NoGroup => jlast.plan.ps.count <= MAX_PS_NUM

\* a get_job_resource_plan step made in stage RUNNING
RunningPlanCall == JobCall("get_job_resource_plan") /\ jobStage = "RUNNING"

\* the step asked the optimizer for a worker plan after the PS plan
WorkerPlanRequested == Len(jlast'.reqs) = 2

\* in RUNNING the PS plan is requested first, and a worker plan exactly when
\* the PS plan is empty
PsPlanFirst ==
    RunningPlanCall =>
        /\ jlast'.reqs # <<>>
        /\ jlast'.reqs[1] = "RUNNING"
        /\ WorkerPlanRequested <=> jlast'.first_empty

\* a worker plan is requested with SAMPLE while optimize_worker_sampled is
\* false and with STABLE afterwards; the flag changes only by a SAMPLE request
\* and never returns to false
SampleOnce ==
    /\ RunningPlanCall /\ WorkerPlanRequested =>
        /\ jlast'.reqs[2] = (IF optimizeWorkerSampled THEN "STABLE" ELSE "SAMPLE")
        /\ optimizeWorkerSampled'
    /\ optimizeWorkerSampled => optimizeWorkerSampled'
    /\ optimizeWorkerSampled' # optimizeWorkerSampled =>
        RunningPlanCall /\ WorkerPlanRequested

C37_OomFrame ==
    [][/\ (JobCall("adjust_oom_worker_resource") \/ JobCall("adjust_oom_ps_resource"))
            => /\ jobStage' = jobStage
               /\ optimizeWorkerSampled' = optimizeWorkerSampled
       /\ jobStage' # jobStage =>
            \/ JobCall("init_job_resource") /\ jobStage' = "WORKER_INITIAL"
            \/ /\ JobCall("get_job_resource_plan")
               /\ <<jobStage, jobStage'>> \in {<<"WORKER_INITIAL", "PS_INITIAL">>,
                                               <<"PS_INITIAL", "RUNNING">>}
       /\ originalWorkerResource' = originalWorkerResource
       /\ originalPsResource' = originalPsResource]_vars

\* C37 witness: an adjust_oom_ps_resource call made in RUNNING after the SAMPLE
\* request raised the live PS memory and left stage and flag as they were.
C37_Witness ==
    /\ jlast.op = "adjust_oom_ps_resource"
    /\ jlast.stage = "RUNNING"
    /\ jobStage = "RUNNING"
    /\ optimizeWorkerSampled
    /\ psResource.memory > originalPsResource.memory

\* int(old node memory x INCREMENTAL_MEMORY_FACTOR)
Incremented(m) ==
    (m * INCREMENTAL_MEMORY_FACTOR_NUM) \div INCREMENTAL_MEMORY_FACTOR_DEN

SweepHit ==
    /\ SweepCheckStep
    /\ Head(swSnap).task.task_type = "EVALUATION"
    /\ swCur - SweepStart(Head(swSnap), swCur) > TaskProcessTimeout

\* the doing-tasks of dataset n that are EVALUATION tasks whose worker started
\* more than the timeout before the time t
TimedOutIds(n, t) ==
    {dm[n].doing[i].task.task_id : i \in
        {j \in 1..Len(dm[n].doing) :
            /\ dm[n].doing[j].task.task_type = "EVALUATION"
            /\ wst[dm[n].doing[j].node_id] # -1
            /\ t - wst[dm[n].doing[j].node_id] > TaskProcessTimeout}}

\* C35: in one pass of the sweeper over a dataset, the first timed-out task of
\* the copy ends the pass over that dataset: nothing of the copy is left to
\* look at, at most one task has left doing, one round of timeout callbacks was
\* invoked, and the other doing-tasks, timed out or not, are still in doing. A
\* step that finds no timed-out task changes no dataset.
C35_OneTimeoutPerPass ==
    [][SweepCheckStep =>
        IF SweepHit
        THEN /\ swSnap' = <<>>
             /\ DoingIds(dm[datasets[swPos]]) \ DoingIds(dm'[datasets[swPos]])
                    \subseteq {Head(swSnap).task.task_id}
             /\ \A n \in DatasetNames : n # datasets[swPos] => dm'[n] = dm[n]
             /\ Len(last'.calls) = Len(callbacks)
             /\ \A i \in 1..Len(last'.calls) :
                    last'.calls[i][2] = Head(swSnap).node_id
        ELSE dm' = dm /\ last' = last]_vars

\* C35 witness: the sweeper has requeued one timed-out task and ended its pass
\* over the dataset while another timed-out task of the dataset is in doing.
C35_Witness ==
    /\ last.op = "sweep"
    /\ swPos > 0
    /\ swSnap = <<>>
    /\ last.task.task_id \in TodoIds(dm[last.ds])
    /\ TimedOutIds(last.ds, swCur) # {}

\* C39: whenever the sweeper invokes the timeout callbacks for a task of its
\* copy, that step moved the task from doing back to todo; a task that has
\* left doing since the copy was taken (reported by its worker, now in done)
\* is not requeued and no callback is invoked for its worker.
C39_CallbackOnlyForRequeued ==
    [][(SweepHit /\ last'.op = "sweep" /\ last'.calls # <<>>) =>
        LET id == Head(swSnap).task.task_id
            name == datasets[swPos]
        IN /\ id \in DoingIds(dm[name])
           /\ id \notin DoingIds(dm'[name])
           /\ id \in TodoIds(dm'[name])]_vars

\* C39, the part that holds: a sweeper step requeues no task that is not in
\* doing when the step is taken.
C39_DoneTaskNotRequeued ==
    [][SweepCheckStep =>
        \A n \in DatasetNames :
            /\ dm'[n].done = dm[n].done
            /\ TodoIds(dm'[n]) \subseteq TodoIds(dm[n]) \cup DoingIds(dm[n])]_vars

\* C38: every report_task_result call that names a registered dataset returns
\* normally: successful or failed report, task in doing or not, with or
\* without a job metric collector, before or after the first get_task call.
\* Only a call that names an unregistered dataset ends with an error.
C38_ReportReturnsNormally ==
    [][ServicerCall("report_task_result") =>
        \/ slast'.ret = "ok"
        \/ slast'.ret = "ValueError" /\ ~Registered(slast'.ds)]_vars

\* a string of decimal digits, and the number it writes
IsDecimalInteger(str) ==
    str # <<>> /\ \A i \in 1..Len(str) : str[i] \in DecimalDigits

\* what the rotation settings are said to give for an environment value
SettingOrDefault(str, least, default) ==
    IF IsDecimalInteger(str) /\ IntValue(str) >= least
    THEN Returned(IntValue(str))
    ELSE Returned(default)

\* C34: get_file_handler_max_bytes returns the environment value when it is a
\* decimal integer >= 1 MiB and 200 MiB for every other value (unset, not a
\* number, below 1 MiB); get_file_handler_backup_count returns the environment
\* value when it is a decimal integer >= 1 and 5 for every other value.
C34_RotateDefaults ==
    /\ logLast.op = "get_file_handler_max_bytes" =>
        [ret |-> logLast.ret, value |-> logLast.value]
            = SettingOrDefault(logEnv.max_bytes, 1048576, 209715200)
    /\ logLast.op = "get_file_handler_backup_count" =>
        [ret |-> logLast.ret, value |-> logLast.value]
            = SettingOrDefault(logEnv.backup_count, 1, 5)

\* C34, the part that holds: the same for every value that has no digit
\* character other than the decimal digits.
C34_RotateDefaultsDecimalOnly ==
    /\ (/\ logLast.op = "get_file_handler_max_bytes"
        /\ \A i \in 1..Len(logEnv.max_bytes) : logEnv.max_bytes[i] \notin OtherDigits)
        => [ret |-> logLast.ret, value |-> logLast.value]
            = SettingOrDefault(logEnv.max_bytes, 1048576, 209715200)
    /\ (/\ logLast.op = "get_file_handler_backup_count"
        /\ \A i \in 1..Len(logEnv.backup_count) :
                logEnv.backup_count[i] \notin OtherDigits)
        => [ret |-> logLast.ret, value |-> logLast.value]
            = SettingOrDefault(logEnv.backup_count, 1, 5)

\* the thread of rank r reads a line in this step: the line it reads
LineRead(r) == acFile[r].lines[acPc[r].pos + 1]
ReadsLine(r) ==
    /\ acPc[r].pc = "monitor"
    /\ acPc'[r].pos = acPc[r].pos + 1

\* C32: reading a malformed line (no prefix, wrong number of prefix fields,
\* unknown target, name or type, a payload that is no dict with global_step)
\* reports nothing, leaves _first_step as it is and leaves the tailer at the
\* top of its loop with the line behind it, so that the next line is read; a
\* thread ends only after it has seen the stop flag.
C32_MalformedLineSkipped ==
    [][\A r \in Ranks :
        /\ (ReadsLine(r) /\ LineRead(r) \in MalformedLines) =>
            /\ acReported' = acReported
            /\ acFirstStep' = acFirstStep
            /\ acPc'[r].pc = "monitor"
            /\ acPc'[r].event = NoEvent
        /\ acPc'[r].pc = "done" => acPc'[r].saw]_vars

\* C32 witness: the thread reported the event of the line that follows a
\* malformed line.
C32_Witness ==
    \E i \in 1..Len(acFile[1].lines) :
        /\ acFile[1].lines[i] \in MalformedLines
        /\ \E k \in 1..Len(acReported[1]) : acReported[1][k].line = i + 1

\* the lines a thread has dealt with: read, and reported or passed over
Handled(r) ==
    IF acPc[r].pc \in {"first", "set", "report"} THEN acPc[r].pos - 1 ELSE acPc[r].pos

IsStepBegin(line) ==
    /\ ParseLine(line).exc = "none"
    /\ line.prefix[4] = "TRAINER"
    /\ line.prefix[5] = "TRAIN_EVT_STEP"
    /\ line.prefix[6] = "BEGIN"

\* the number of the first valid TRAINER step BEGIN line among the first n
\* lines, 0 when there is none
FirstBegin(lines, n) ==
    IF \E i \in 1..n : IsStepBegin(lines[i])
    THEN CHOOSE i \in 1..n :
            IsStepBegin(lines[i]) /\ \A j \in 1..(i - 1) : ~IsStepBegin(lines[j])
    ELSE 0

\* the reports due for the first n lines when line number f set _first_step:
\* the valid events after line f whose step is not that of line f, in order
RECURSIVE ReportsDue(_, _, _)
ReportsDue(lines, n, f) ==
    IF n = 0 THEN <<>>
    ELSE LET e == ParseLine(lines[n])
             before == ReportsDue(lines, n - 1, f)
         IN IF e.exc = "none" /\ f # 0 /\ n > f /\ e.step # lines[f].payload.step
            THEN Append(before, [line |-> n, event |-> e])
            ELSE before

\* C40: _first_step, once set, never changes, and it is set to the step of a
\* valid TRAINER step BEGIN event; nothing is reported while it is not set; no
\* reported event has the step _first_step; each thread reports the lines of
\* its file at most once and in file order.
C40_FirstStepSetOnce ==
    [][/\ acFirstStep # 0 => acFirstStep' = acFirstStep
       /\ acFirstStep' # acFirstStep =>
            \E r \in Ranks : /\ acPc[r].pc = "set"
                             /\ acPc[r].event.type = "BEGIN"
                             /\ acPc[r].event.name = "TRAIN_EVT_STEP"
                             /\ acFirstStep' = acPc[r].event.step
       /\ acReported' # acReported => acFirstStep # 0
       /\ \A r \in Ranks : \A k \in 1..Len(acReported'[r]) :
            /\ acReported'[r][k].event.step # acFirstStep'
            /\ k > 1 => acReported'[r][k].line > acReported'[r][k - 1].line]_vars

\* C40, the part that holds: with one rank, _first_step is the step of the
\* first valid TRAINER step BEGIN line the thread has read, and the reports
\* are exactly the valid events read after that line with another step, once
\* each and in file order.
C40_OneRankReportsOnce ==
    LET lines == acFile[1].lines
        f == FirstBegin(lines, IF acPc[1].pc = "report" THEN acPc[1].pos ELSE Handled(1))
    IN /\ acFirstStep = (IF f = 0 THEN 0 ELSE lines[f].payload.step)
       /\ acReported[1] = ReportsDue(lines, Handled(1), f)

StateWasLoaded == mgMemory # EmptyDict \/ (mgStorage.tracker /\ mgStorage.loadable)
StateLoaded == IF mgMemory # EmptyDict THEN mgMemory ELSE mgStorage.state
ReleaseLoaded == mgMemory = EmptyDict /\ mgStorage.release
NoCheckpointFound == mgMemory = EmptyDict /\ ~mgStorage.tracker
NoIterationKey == StateLoaded.iteration = Absent /\ StateLoaded.total_iters = Absent

\* C33 as stated: load_checkpoint ends the process when the loaded state has
\* neither iteration nor total_iters, and when the RNG state is missing while
\* no_load_rng is not set; with no checkpoint found and
\* exit_on_missing_checkpoint not set it returns (0, 0).
C33_LoadExits ==
    mgLast # NoLoad =>
        /\ (StateWasLoaded /\ NoIterationKey) => mgLast.outcome = "exit"
        /\ (StateWasLoaded /\ StateLoaded.rng = "missing" /\ ~mgArgs.no_load_rng) =>
                mgLast.outcome = "exit"
        /\ (NoCheckpointFound /\ ~mgArgs.exit_on_missing_checkpoint) =>
                mgLast.outcome = "return" /\ mgLast.value = <<0, 0>>

\* C33: it does so unless finetune is set or a release checkpoint was loaded;
\* then the call returns with iteration 0, whatever keys are missing. With no
\* checkpoint found and exit_on_missing_checkpoint not set it returns (0, 0).
C33_LoadExitsUnlessFinetune ==
    mgLast # NoLoad =>
        /\ (StateWasLoaded /\ ~mgArgs.finetune /\ ~ReleaseLoaded) =>
            /\ NoIterationKey => mgLast.outcome = "exit"
            /\ (StateLoaded.rng = "missing" /\ ~mgArgs.no_load_rng) =>
                    mgLast.outcome = "exit"
        /\ (StateWasLoaded /\ (mgArgs.finetune \/ ReleaseLoaded)) =>
            /\ mgLast.outcome = "return"
            /\ mgLast.value[1] = 0
        /\ (NoCheckpointFound /\ ~mgArgs.exit_on_missing_checkpoint) =>
                mgLast.outcome = "return" /\ mgLast.value = <<0, 0>>

\* the call ended the process for the RNG state alone: the state came from
\* load_dir with total_iters and the optimizer entries
C33_Witness ==
    /\ mgLast.outcome = "exit"
    /\ mgMemory = EmptyDict
    /\ StateWasLoaded /\ ~ReleaseLoaded
    /\ ~mgArgs.finetune /\ ~mgArgs.no_load_rng
    /\ StateLoaded.iteration = Absent /\ StateLoaded.total_iters # Absent
    /\ StateLoaded.optimizer
    /\ StateLoaded.rng = "missing"

====
